---- MODULE Spec2Model ----
\* Model of the movie-idea generator (src/services/generator.js, kept in
\* src/unnamed/part_004 lines 187-609): one run of generateMovieIdea (Spec),
\* a run given an incomplete parameter record (ParamSpec), and a call of
\* generateMovieIdeaWithRetry (RetrySpec), and the batch of six calls that
\* handleGenerateIdeas of src/src/App.vue makes (BatchSpec); of direct calls
\* of the generator's helper functions (FilterSpec); and of direct calls of
\* the functions of the calculator (src/services/calculator.js, part_004
\* lines 1-185; CalcSpec).  RunSpec is a call of either entry point run to
\* its end, out-of-range targets included; ScoreSpec is the scoring stage in
\* the binary64 arithmetic of the engine.
\*
\* Numbers.  Compatibility scores, min_score, the fallback score and TotalScore
\* are held in tenths (4.0 is 40); genre weights are held in hundredths
\* (0.65 is 65); a weighted pair score is therefore held in thousandths.
\* Arithmetic is exact decimal arithmetic.
\*
\* Pools.  A category that is absent from activeTags behaves in every branch of
\* the generator like an empty list, so it is modelled as the empty sequence.
EXTENDS Integers, Sequences, FiniteSets

VARIABLES
    originalActiveTags,     \* the pool the caller handed over (never written)
    activeTags,             \* the working pool the run mutates
    compatibilityData,      \* the compatibility matrix (read-only)
    params,                 \* the generation parameters
    idea,                   \* the idea record under construction
    selectedTags,           \* tags selected so far, in order of selection
    availableThemesEvents,  \* Step 4 candidate list
    availableFinales,       \* Step 5 candidate list
    availableSupport,       \* Step 7 candidate list
    i,                      \* index of the current multi-pick loop
    pc,                     \* position inside generateMovieIdea
    result,                 \* what generateMovieIdea returned
    attempt,                \* generateMovieIdeaWithRetry: the loop counter
    lastGeneratedIdea,      \* generateMovieIdeaWithRetry: result of the latest attempt
    attemptResults,         \* what each attempt of the call returned, in order
    copyMayFail,            \* the caller's pool is not plain data: copying it can throw
    copyFailed,             \* a deep copy of the pool threw during the call
    rpc,                    \* position inside generateMovieIdeaWithRetry
    retryResult,            \* what generateMovieIdeaWithRetry returned
    staticDataLoaded,       \* App.vue: the static data was loaded without error
    selectedTagsByCategory, \* App.vue: the tag pool selected in the interface
    isGenerating,           \* App.vue: a batch is in progress
    generatedIdeas,         \* App.vue: the ideas shown
    generationStatusMessage,\* App.vue: the status line
    isGeneratorErrorStatus, \* App.vue: the status line reports an error
    successfulIdeas,        \* handleGenerateIdeas: ideas collected by the batch
    batchIndex,             \* handleGenerateIdeas: the loop counter i
    batchesInProgress,      \* invocations of handleGenerateIdeas between line 163 and the finally
    bpc,                    \* position inside handleGenerateIdeas
    args,                   \* the arguments of a function called directly
    returned,               \* what the function called directly returned
    fpc                     \* whether a function was called directly

\* the state of generateMovieIdeaWithRetry
ctl == <<attempt, lastGeneratedIdea, attemptResults, copyMayFail, copyFailed,
         rpc, retryResult>>

\* the state of App.vue and of handleGenerateIdeas
app == <<staticDataLoaded, selectedTagsByCategory, isGenerating, generatedIdeas,
         generationStatusMessage, isGeneratorErrorStatus, successfulIdeas,
         batchIndex, batchesInProgress, bpc>>

\* the arguments and the return value of a helper function called directly
fn == <<args, returned, fpc>>

vars == <<originalActiveTags, activeTags, compatibilityData, params, idea,
          selectedTags, availableThemesEvents, availableFinales,
          availableSupport, i, pc, result, attempt, lastGeneratedIdea,
          attemptResults, copyMayFail, copyFailed, rpc, retryResult,
          staticDataLoaded, selectedTagsByCategory, isGenerating, generatedIdeas,
          generationStatusMessage, isGeneratorErrorStatus, successfulIdeas,
          batchIndex, batchesInProgress, bpc, args, returned, fpc>>

-----------------------------------------------------------------------------
\* Values

NullTag == "null"

Range(s) == {s[k] : k \in 1..Len(s)}

TagList == <<"G1", "G2", "G3", "S1", "S2", "P1", "P2", "T1", "T2", "T3",
             "F1", "F2", "A1", "C1", "C2">>

Tags == Range(TagList)

Idx(t) == CHOOSE k \in 1..Len(TagList) : TagList[k] = t

\* the idea record as it is created at the start of a run
NewIdea ==
    [Genres |-> <<>>, GenreWeights |-> <<>>, Setting |-> NullTag,
     Protagonist |-> NullTag, Antagonist |-> NullTag,
     SupportingChars |-> <<>>, Finales |-> <<>>, ThemesEvents |-> <<>>,
     TotalScore |-> 0, AllTags |-> <<>>, Warnings |-> <<>>]

Pending == [kind |-> "pending", idea |-> NewIdea]

NullResult == [kind |-> "null", idea |-> NewIdea]

IdeaResult(r) == [kind |-> "idea", idea |-> r]

-----------------------------------------------------------------------------
\* Inputs

BasePool ==
    [GENRES |-> <<"G1", "G2", "G3">>,
     SETTING |-> <<"S1", "S2">>,
     PROTAGONIST |-> <<"P1", "P2">>,
     THEME_and_EVENTS |-> <<"T1", "T2", "T3">>,
     THEME |-> <<"T1", "T2">>,
     EVENT |-> <<"T3">>,
     FINALE |-> <<"F1", "F2">>,
     ANTAGONIST |-> <<"A1">>,
     SUPPORTINGCHARACTER |-> <<"C1", "C2">>]

\* a pool with short lists: two genres, one theme, one finale, no antagonist,
\* one supporting character
SmallPool ==
    [GENRES |-> <<"G1", "G2">>,
     SETTING |-> <<"S1">>,
     PROTAGONIST |-> <<"P1", "P2">>,
     THEME_and_EVENTS |-> <<"T1">>,
     THEME |-> <<"T1">>,
     EVENT |-> <<>>,
     FINALE |-> <<"F1">>,
     ANTAGONIST |-> <<>>,
     SUPPORTINGCHARACTER |-> <<"C1">>]

\* a pool that lists identifiers twice, inside a category and under more than
\* one category
SharedPool ==
    [GENRES |-> <<"G1", "G1", "G2">>,
     SETTING |-> <<"G1", "S1">>,
     PROTAGONIST |-> <<"S1", "P1">>,
     THEME_and_EVENTS |-> <<"P1", "T1", "T1", "T2">>,
     THEME |-> <<"T1">>,
     EVENT |-> <<"T2">>,
     FINALE |-> <<"T1", "F1">>,
     ANTAGONIST |-> <<"F1", "A1">>,
     SUPPORTINGCHARACTER |-> <<"A1", "C1">>]

\* the pools of a run: the three above, and SmallPool with one of the
\* mandatory categories empty
PoolSet ==
    {BasePool, SmallPool, SharedPool,
     [SmallPool EXCEPT !.GENRES = <<>>],
     [SmallPool EXCEPT !.SETTING = <<>>],
     [SmallPool EXCEPT !.PROTAGONIST = <<>>],
     [SmallPool EXCEPT !.THEME_and_EVENTS = <<>>],
     [SmallPool EXCEPT !.FINALE = <<>>]}

\* score values used in the matrices, in tenths; 0 stands for a missing entry
ScoreLevels == <<45, 50, 35, 25, 0>>

NumMatrices == 4

\* the k-th matrix: matrix 1 scores every pair 4.5, the others spread the
\* score levels over the ordered pairs (asymmetrically)
Level(k, a, b) ==
    ScoreLevels[(((k - 1) * (Idx(a) * Idx(a) + Idx(a) * Idx(b) + 3 * Idx(b) + k))
                 % Len(ScoreLevels)) + 1]

MatrixOf(k) ==
    LET row(a) == {b \in Tags : Level(k, a, b) # 0}
    IN  [a \in {t \in Tags : row(t) # {}} |-> [b \in row(a) |-> Level(k, a, b)]]

MatrixSet == {MatrixOf(k) : k \in 1..NumMatrices}

\* the parameters the application starts with (src/src/App.vue lines 23-30)
generationParams ==
    [min_score |-> 40, num_genres_target |-> 2, num_themes_target |-> 2,
     num_finales_target |-> 1, num_support_target |-> 1, add_antagonist |-> TRUE]

\* values of the min_score slider (2.0 to 5.0) and one value below 1.0
MinScoreChoices == {5, 20, 30, 40, 50}

\* the parameter records of a run: the initial record with one parameter
\* moved through its range, and the records with every target at the top and
\* at the bottom of its range
ParamSet ==
    {[generationParams EXCEPT !.min_score = m] : m \in MinScoreChoices}
    \cup {[generationParams EXCEPT !.num_genres_target = n] : n \in 1..3}
    \cup {[generationParams EXCEPT !.num_themes_target = n] : n \in 1..3}
    \cup {[generationParams EXCEPT !.num_finales_target = n] : n \in 1..2}
    \cup {[generationParams EXCEPT !.num_support_target = n] : n \in 0..2}
    \cup {[generationParams EXCEPT !.add_antagonist = b] : b \in BOOLEAN}
    \cup {[generationParams EXCEPT !.num_genres_target = 3, !.num_themes_target = 3,
                                   !.num_finales_target = 2, !.num_support_target = 2],
          [generationParams EXCEPT !.num_genres_target = 1, !.num_themes_target = 1,
                                   !.num_finales_target = 1, !.num_support_target = 0,
                                   !.add_antagonist = FALSE]}

\* the names of the six generation parameters
ParamNames == DOMAIN generationParams

\* parameter records from which one parameter is absent
MissingParamSet ==
    {[p \in ParamNames \ {q} |-> generationParams[p]] : q \in ParamNames}

-----------------------------------------------------------------------------
\* Helper functions of generator.js

\* the values getRandomElement(arr) can return for a non-empty arr
getRandomElement(arr) == {arr[k] : k \in 1..Len(arr)}

\* mutant: a missing entry counts as the top score
getCompatibilityScore_MissingIsTop(tagA, tagB, cd) ==
    IF tagA \in DOMAIN cd /\ tagB \in DOMAIN cd[tagA] THEN cd[tagA][tagB] ELSE 50

getCompatibilityScore(tagA, tagB, cd) ==
    IF tagA \in DOMAIN cd /\ tagB \in DOMAIN cd[tagA] THEN cd[tagA][tagB] ELSE 0

\* mutant: only the direction from the candidate to the existing tag counts
isCompatibleWithAll_ForwardOnly(candidateTag, existingTags, cd, requiredScore) ==
    IF Len(existingTags) = 0 THEN TRUE
    ELSE \A k \in 1..Len(existingTags) :
            getCompatibilityScore(candidateTag, existingTags[k], cd) >= requiredScore

isCompatibleWithAll(candidateTag, existingTags, cd, requiredScore) ==
    IF Len(existingTags) = 0 THEN TRUE
    ELSE \A k \in 1..Len(existingTags) :
            LET scoreForward == getCompatibilityScore(candidateTag, existingTags[k], cd)
                scoreReverse == getCompatibilityScore(existingTags[k], candidateTag, cd)
            IN  ~(scoreForward < requiredScore /\ scoreReverse < requiredScore)

\* mutant: a candidate that occurs again in the list is kept once
findCompatibleTags_Deduplicated(candidateTags, existingTags, cd, requiredScore) ==
    IF Len(candidateTags) = 0 THEN <<>>
    ELSE LET kept == SelectSeq(candidateTags,
                         LAMBDA tag : isCompatibleWithAll(tag, existingTags, cd, requiredScore))
             first == {k \in 1..Len(kept) : \A j \in 1..(k - 1) : kept[j] # kept[k]}
             nth(n) == CHOOSE k \in first : Cardinality({m \in first : m <= k}) = n
         IN  [n \in 1..Cardinality(first) |-> kept[nth(n)]]

findCompatibleTags(candidateTags, existingTags, cd, requiredScore) ==
    IF Len(candidateTags) = 0 THEN <<>>
    ELSE SelectSeq(candidateTags,
                   LAMBDA tag : isCompatibleWithAll(tag, existingTags, cd, requiredScore))

\* mutant: only the first occurrence of the tag is taken out
Without_FirstOnly(arr, tag) ==
    LET hits == {k \in 1..Len(arr) : arr[k] = tag}
        at == IF hits = {} THEN 0 ELSE CHOOSE k \in hits : \A m \in hits : k <= m
    IN  [k \in 1..(Len(arr) - (IF at = 0 THEN 0 ELSE 1)) |->
            IF at = 0 \/ k < at THEN arr[k] ELSE arr[k + 1]]

\* arr.filter(t => t !== tag)
Without(arr, tag) == SelectSeq(arr, LAMBDA t : t # tag)

\* arr.filter(tag => !selectedTags.includes(tag))
NotSelected(arr, selected) == SelectSeq(arr, LAMBDA t : t \notin Range(selected))

\* Array.from(new Set(arr)): first occurrences, in order
RECURSIVE Unique(_)
Unique(arr) ==
    IF Len(arr) = 0 THEN <<>>
    ELSE LET front == Unique(SubSeq(arr, 1, Len(arr) - 1))
             last == arr[Len(arr)]
         IN  IF last \in Range(front) THEN front ELSE Append(front, last)

getAvailableThemesEvents(at) == Unique(at.THEME_and_EVENTS)

\* mutant: the fallback threshold is taken 2.0 below min_score
fallbackScore_TwoBelow(min_score) == IF min_score - 20 > 0 THEN min_score - 20 ELSE 0

fallbackScore(min_score) == IF min_score - 10 > 0 THEN min_score - 10 ELSE 0

-----------------------------------------------------------------------------
\* generateMovieIdea is called directly: generateMovieIdeaWithRetry is not running
NoRetry ==
    /\ attempt = 0
    /\ lastGeneratedIdea = NullResult
    /\ attemptResults = <<>>
    /\ copyMayFail = FALSE
    /\ copyFailed = FALSE
    /\ rpc = "none"
    /\ retryResult = Pending

\* the generator is called outside the application: App.vue is not running
NoBatch ==
    /\ staticDataLoaded = FALSE
    /\ selectedTagsByCategory = originalActiveTags
    /\ isGenerating = FALSE
    /\ generatedIdeas = <<>>
    /\ generationStatusMessage = ""
    /\ isGeneratorErrorStatus = FALSE
    /\ successfulIdeas = <<>>
    /\ batchIndex = 0
    /\ batchesInProgress = 0
    /\ bpc = "none"

\* no helper function is called directly: the helpers run inside the generator
NoCall ==
    /\ args = [candidateTag |-> NullTag, candidateTags |-> <<>>,
               existingTags |-> <<>>, requiredScore |-> 0]
    /\ returned = [fn |-> "none"]
    /\ fpc = "none"

\* one call of generateMovieIdea with a complete parameter record
Init ==
    /\ originalActiveTags \in PoolSet
    /\ activeTags = originalActiveTags
    /\ compatibilityData \in MatrixSet
    /\ params \in ParamSet
    /\ idea = NewIdea
    /\ selectedTags = <<>>
    /\ availableThemesEvents = <<>>
    /\ availableFinales = <<>>
    /\ availableSupport = <<>>
    /\ i = 0
    /\ pc = "params"
    /\ result = Pending
    /\ NoRetry
    /\ NoBatch
    /\ NoCall

\* mutant: the catch hands back the idea as far as it was built
Throw_ReturnsPartial ==
    /\ pc' = "done"
    /\ result' = IdeaResult(idea)
    /\ UNCHANGED <<originalActiveTags, activeTags, compatibilityData, params,
                   idea, selectedTags, availableThemesEvents, availableFinales,
                   availableSupport, i>>

\* throw inside the try block: the catch returns null
Throw ==
    /\ pc' = "done"
    /\ result' = NullResult
    /\ UNCHANGED <<originalActiveTags, activeTags, compatibilityData, params,
                   idea, selectedTags, availableThemesEvents, availableFinales,
                   availableSupport, i>>

\* mutant: the fallback filter is applied without trying the strict one first
mandatoryCandidates_FallbackOnly(candidateTags, existingTags, cd, min_score) ==
    findCompatibleTags(candidateTags, existingTags, cd, fallbackScore(min_score))

\* mutant: every iteration falls back, not only the first
loopCandidates_AlwaysFallback(candidateTags, existingTags, cd, min_score, first) ==
    LET strict == findCompatibleTags(candidateTags, existingTags, cd, min_score)
    IN  IF Len(strict) = 0
        THEN findCompatibleTags(candidateTags, existingTags, cd, fallbackScore(min_score))
        ELSE strict

\* strict filter first, the fallback filter only when the strict one is empty
\* (lines 371-375, 388-392, 419-423, 432-436)
mandatoryCandidates(candidateTags, existingTags, cd, min_score) ==
    LET strict == findCompatibleTags(candidateTags, existingTags, cd, min_score)
    IN  IF Len(strict) = 0
        THEN findCompatibleTags(candidateTags, existingTags, cd, fallbackScore(min_score))
        ELSE strict

\* the filter of one iteration of the Step 4 / Step 5 loops: only the first
\* iteration falls back (lines 456-461, 494-499)
loopCandidates(candidateTags, existingTags, cd, min_score, first) ==
    LET strict == findCompatibleTags(candidateTags, existingTags, cd, min_score)
    IN  IF Len(strict) = 0 /\ first
        THEN findCompatibleTags(candidateTags, existingTags, cd, fallbackScore(min_score))
        ELSE strict

\* mutant: every iteration is treated as the first one
isFirst_Always(index) == TRUE

\* const isFirst = (i === 0)
isFirst(index) == index = 0

\* the filter of the optional slots (lines 522, 555)
optionalCandidates(candidateTags, existingTags, cd, min_score) ==
    findCompatibleTags(candidateTags, existingTags, cd, min_score)

\* mutant: the message is logged but not recorded on the idea
pushWarning_Dropped(warnings, slot, number, target, reason) == warnings

\* idea.Warnings.push(message)
pushWarning(warnings, slot, number, target, reason) ==
    Append(warnings, [slot |-> slot, number |-> number, target |-> target,
                      reason |-> reason])

\* mutant: the loop runs one iteration too many
loopCondition_Inclusive(index, target) == index <= target

\* for (let i = 0; i < target; i++)
loopCondition(index, target) == index < target

\* mutant: equal weights for every genre count, as in the default branch
genreWeightChoices_Equal(numGenres) == {[k \in 1..numGenres |-> 100 \div numGenres]}

\* the weight tuples the switch on the number of genres can assign
genreWeightChoices(numGenres) ==
    CASE numGenres = 1 -> {<<100>>}
      [] numGenres = 2 -> getRandomElement(<<(<<50, 50>>), (<<65, 35>>), (<<80, 20>>)>>)
      [] numGenres = 3 -> getRandomElement(<<(<<40, 30, 30>>), (<<60, 20, 20>>)>>)
      [] OTHER -> {[k \in 1..numGenres |-> 100 \div numGenres]}

-----------------------------------------------------------------------------
\* mutant: add_antagonist is not among the checked parameters
requiredParams_WithoutAntagonist ==
    <<"min_score", "num_genres_target", "num_themes_target", "num_finales_target",
      "num_support_target">>

\* const requiredParams = [...]
requiredParams ==
    <<"min_score", "num_genres_target", "num_themes_target", "num_finales_target",
      "num_support_target", "add_antagonist">>

\* params[p] === undefined
isUndefined(record, p) == p \notin DOMAIN record

\* the parameter check at the entry of generateMovieIdea (lines 327-333): a
\* missing parameter returns null before the idea record is created
CheckParams ==
    /\ pc = "params"
    /\ UNCHANGED <<ctl, app, fn>>
    /\ IF \E k \in 1..Len(requiredParams) : isUndefined(params, requiredParams[k])
       THEN /\ pc' = "done"
            /\ result' = NullResult
       ELSE /\ pc' = "genre1"
            /\ result' = result
    /\ UNCHANGED <<originalActiveTags, activeTags, compatibilityData, params,
                   idea, selectedTags, availableThemesEvents, availableFinales,
                   availableSupport, i>>

\* mutant: only a target above the range is turned down
invalidTarget_AboveOnly(target, low, high) == target > high

\* params.num_x_target < low || params.num_x_target > high (lines 358, 445, 483)
invalidTarget(target, low, high) == target < low \/ target > high

\* Step 1, first genre (lines 354-367)
Step1FirstGenre ==
    /\ pc = "genre1"
    /\ UNCHANGED <<ctl, app, fn>>
    /\ IF Len(activeTags.GENRES) = 0
          \/ invalidTarget(params.num_genres_target, 1, 3)
       THEN Throw
       ELSE \E firstGenre \in getRandomElement(activeTags.GENRES) :
              /\ idea' = [idea EXCEPT !.Genres = Append(@, firstGenre)]
              /\ selectedTags' = Append(selectedTags, firstGenre)
              /\ activeTags' = [activeTags EXCEPT !.GENRES = Without(@, firstGenre)]
              /\ pc' = "genre2"
              /\ UNCHANGED <<originalActiveTags, compatibilityData, params,
                             availableThemesEvents, availableFinales,
                             availableSupport, i, result>>

\* Step 1, second genre (lines 369-384)
Step1SecondGenre ==
    /\ pc = "genre2"
    /\ UNCHANGED <<ctl, app, fn>>
    /\ IF params.num_genres_target >= 2
       THEN LET compatibleSecondGenres ==
                    mandatoryCandidates(activeTags.GENRES, selectedTags,
                                        compatibilityData, params.min_score)
            IN  IF Len(activeTags.GENRES) = 0 \/ Len(compatibleSecondGenres) = 0
                THEN Throw
                ELSE \E secondGenre \in getRandomElement(compatibleSecondGenres) :
                       /\ idea' = [idea EXCEPT !.Genres = Append(@, secondGenre)]
                       /\ selectedTags' = Append(selectedTags, secondGenre)
                       /\ activeTags' = [activeTags EXCEPT !.GENRES = Without(@, secondGenre)]
                       /\ pc' = "genre3"
                       /\ UNCHANGED <<originalActiveTags, compatibilityData, params,
                                      availableThemesEvents, availableFinales,
                                      availableSupport, i, result>>
       ELSE /\ pc' = "genre3"
            /\ UNCHANGED <<originalActiveTags, activeTags, compatibilityData,
                           params, idea, selectedTags, availableThemesEvents,
                           availableFinales, availableSupport, i, result>>

\* Step 1, third genre (lines 386-401)
Step1ThirdGenre ==
    /\ pc = "genre3"
    /\ UNCHANGED <<ctl, app, fn>>
    /\ IF params.num_genres_target = 3
       THEN LET compatibleThirdGenres ==
                    mandatoryCandidates(activeTags.GENRES, selectedTags,
                                        compatibilityData, params.min_score)
            IN  IF Len(activeTags.GENRES) = 0 \/ Len(compatibleThirdGenres) = 0
                THEN Throw
                ELSE \E thirdGenre \in getRandomElement(compatibleThirdGenres) :
                       /\ idea' = [idea EXCEPT !.Genres = Append(@, thirdGenre)]
                       /\ selectedTags' = Append(selectedTags, thirdGenre)
                       /\ activeTags' = [activeTags EXCEPT !.GENRES = Without(@, thirdGenre)]
                       /\ pc' = "weights"
                       /\ UNCHANGED <<originalActiveTags, compatibilityData, params,
                                      availableThemesEvents, availableFinales,
                                      availableSupport, i, result>>
       ELSE /\ pc' = "weights"
            /\ UNCHANGED <<originalActiveTags, activeTags, compatibilityData,
                           params, idea, selectedTags, availableThemesEvents,
                           availableFinales, availableSupport, i, result>>

\* Step 1, genre weights (lines 403-414)
Step1GenreWeights ==
    /\ pc = "weights"
    /\ UNCHANGED <<ctl, app, fn>>
    /\ \E finalWeights \in genreWeightChoices(Len(idea.Genres)) :
          idea' = [idea EXCEPT !.GenreWeights = finalWeights]
    /\ pc' = "setting"
    /\ UNCHANGED <<originalActiveTags, activeTags, compatibilityData, params,
                   selectedTags, availableThemesEvents, availableFinales,
                   availableSupport, i, result>>

\* Step 2, setting (lines 417-427); the setting stays in the pool
Step2Setting ==
    /\ pc = "setting"
    /\ UNCHANGED <<ctl, app, fn>>
    /\ LET compatibleSettings ==
               mandatoryCandidates(activeTags.SETTING, selectedTags,
                                   compatibilityData, params.min_score)
       IN  IF Len(activeTags.SETTING) = 0 \/ Len(compatibleSettings) = 0
           THEN Throw
           ELSE \E setting \in getRandomElement(compatibleSettings) :
                  /\ idea' = [idea EXCEPT !.Setting = setting]
                  /\ selectedTags' = Append(selectedTags, setting)
                  /\ pc' = "protagonist"
                  /\ UNCHANGED <<originalActiveTags, activeTags, compatibilityData,
                                 params, availableThemesEvents, availableFinales,
                                 availableSupport, i, result>>

\* Step 3, protagonist (lines 430-441)
Step3Protagonist ==
    /\ pc = "protagonist"
    /\ UNCHANGED <<ctl, app, fn>>
    /\ LET compatibleProtagonists ==
               mandatoryCandidates(activeTags.PROTAGONIST, selectedTags,
                                   compatibilityData, params.min_score)
       IN  IF Len(activeTags.PROTAGONIST) = 0 \/ Len(compatibleProtagonists) = 0
           THEN Throw
           ELSE \E protagonist \in getRandomElement(compatibleProtagonists) :
                  /\ idea' = [idea EXCEPT !.Protagonist = protagonist]
                  /\ selectedTags' = Append(selectedTags, protagonist)
                  /\ activeTags' = [activeTags EXCEPT !.PROTAGONIST = Without(@, protagonist)]
                  /\ pc' = "themes"
                  /\ UNCHANGED <<originalActiveTags, compatibilityData, params,
                                 availableThemesEvents, availableFinales,
                                 availableSupport, i, result>>

\* Step 4, before the loop (lines 444-449)
Step4Themes ==
    /\ pc = "themes"
    /\ UNCHANGED <<ctl, app, fn>>
    /\ LET available == NotSelected(getAvailableThemesEvents(activeTags), selectedTags)
       IN  IF invalidTarget(params.num_themes_target, 1, 3)
              \/ (Len(available) = 0 /\ params.num_themes_target > 0)
           THEN Throw
           ELSE /\ availableThemesEvents' = available
                /\ i' = 0
                /\ pc' = "themes_loop"
                /\ UNCHANGED <<originalActiveTags, activeTags, compatibilityData,
                               params, idea, selectedTags, availableFinales,
                               availableSupport, result>>

\* Step 4, one iteration of the loop or its exit (lines 449-479)
Step4ThemesLoop ==
    /\ pc = "themes_loop"
    /\ UNCHANGED <<ctl, app, fn>>
    /\ IF ~loopCondition(i, params.num_themes_target)
       THEN /\ pc' = "finales"
            /\ UNCHANGED <<originalActiveTags, activeTags, compatibilityData,
                           params, idea, selectedTags, availableThemesEvents,
                           availableFinales, availableSupport, i, result>>
       ELSE IF Len(availableThemesEvents) = 0
       THEN IF i = 0 THEN Throw
            ELSE /\ idea' = [idea EXCEPT !.Warnings =
                        pushWarning(@, "ThemeEvent", i + 1, params.num_themes_target, "none remaining")]
                 /\ pc' = "finales"
                 /\ UNCHANGED <<originalActiveTags, activeTags, compatibilityData,
                                params, selectedTags, availableThemesEvents,
                                availableFinales, availableSupport, i, result>>
       ELSE LET compatibleThemesEvents ==
                    loopCandidates(availableThemesEvents, selectedTags,
                                   compatibilityData, params.min_score, isFirst(i))
            IN  IF Len(compatibleThemesEvents) = 0
                THEN IF isFirst(i) THEN Throw
                     ELSE /\ idea' = [idea EXCEPT !.Warnings =
                                 pushWarning(@, "ThemeEvent", i + 1, params.num_themes_target, "none compatible")]
                          /\ pc' = "finales"
                          /\ UNCHANGED <<originalActiveTags, activeTags,
                                         compatibilityData, params, selectedTags,
                                         availableThemesEvents, availableFinales,
                                         availableSupport, i, result>>
                ELSE \E chosenThemeEvent \in getRandomElement(compatibleThemesEvents) :
                       /\ idea' = [idea EXCEPT !.ThemesEvents = Append(@, chosenThemeEvent)]
                       /\ selectedTags' = Append(selectedTags, chosenThemeEvent)
                       /\ availableThemesEvents' = Without(availableThemesEvents, chosenThemeEvent)
                       /\ activeTags' = [activeTags EXCEPT
                              !.THEME = Without(@, chosenThemeEvent),
                              !.EVENT = Without(@, chosenThemeEvent),
                              !.THEME_and_EVENTS = Without(@, chosenThemeEvent)]
                       /\ i' = i + 1
                       /\ pc' = "themes_loop"
                       /\ UNCHANGED <<originalActiveTags, compatibilityData, params,
                                      availableFinales, availableSupport, result>>

\* Step 5, before the loop (lines 482-487)
Step5Finales ==
    /\ pc = "finales"
    /\ UNCHANGED <<ctl, app, fn>>
    /\ LET available == NotSelected(activeTags.FINALE, selectedTags)
       IN  IF invalidTarget(params.num_finales_target, 1, 2)
              \/ (Len(available) = 0 /\ params.num_finales_target > 0)
           THEN Throw
           ELSE /\ availableFinales' = available
                /\ i' = 0
                /\ pc' = "finales_loop"
                /\ UNCHANGED <<originalActiveTags, activeTags, compatibilityData,
                               params, idea, selectedTags, availableThemesEvents,
                               availableSupport, result>>

\* Step 5, one iteration of the loop or its exit (lines 487-515)
Step5FinalesLoop ==
    /\ pc = "finales_loop"
    /\ UNCHANGED <<ctl, app, fn>>
    /\ IF ~loopCondition(i, params.num_finales_target)
       THEN /\ pc' = "antagonist"
            /\ UNCHANGED <<originalActiveTags, activeTags, compatibilityData,
                           params, idea, selectedTags, availableThemesEvents,
                           availableFinales, availableSupport, i, result>>
       ELSE IF Len(availableFinales) = 0
       THEN IF i = 0 THEN Throw
            ELSE /\ idea' = [idea EXCEPT !.Warnings =
                        pushWarning(@, "Finale", i + 1, params.num_finales_target, "none remaining")]
                 /\ pc' = "antagonist"
                 /\ UNCHANGED <<originalActiveTags, activeTags, compatibilityData,
                                params, selectedTags, availableThemesEvents,
                                availableFinales, availableSupport, i, result>>
       ELSE LET compatibleFinales ==
                    loopCandidates(availableFinales, selectedTags,
                                   compatibilityData, params.min_score, isFirst(i))
            IN  IF Len(compatibleFinales) = 0
                THEN IF isFirst(i) THEN Throw
                     ELSE /\ idea' = [idea EXCEPT !.Warnings =
                                 pushWarning(@, "Finale", i + 1, params.num_finales_target, "none compatible")]
                          /\ pc' = "antagonist"
                          /\ UNCHANGED <<originalActiveTags, activeTags,
                                         compatibilityData, params, selectedTags,
                                         availableThemesEvents, availableFinales,
                                         availableSupport, i, result>>
                ELSE \E chosenFinale \in getRandomElement(compatibleFinales) :
                       /\ idea' = [idea EXCEPT !.Finales = Append(@, chosenFinale)]
                       /\ selectedTags' = Append(selectedTags, chosenFinale)
                       /\ availableFinales' = Without(availableFinales, chosenFinale)
                       /\ activeTags' = [activeTags EXCEPT !.FINALE = Without(@, chosenFinale)]
                       /\ i' = i + 1
                       /\ pc' = "finales_loop"
                       /\ UNCHANGED <<originalActiveTags, compatibilityData, params,
                                      availableThemesEvents, availableSupport, result>>

\* Step 6, antagonist (lines 518-538)
Step6Antagonist ==
    /\ pc = "antagonist"
    /\ UNCHANGED <<ctl, app, fn>>
    /\ pc' = "support"
    /\ IF params.add_antagonist
       THEN LET availableAntagonists == NotSelected(activeTags.ANTAGONIST, selectedTags)
                compatibleAntagonists ==
                    optionalCandidates(availableAntagonists, selectedTags,
                                       compatibilityData, params.min_score)
            IN  IF Len(availableAntagonists) > 0
                THEN IF Len(compatibleAntagonists) > 0
                     THEN \E antagonist \in getRandomElement(compatibleAntagonists) :
                            /\ idea' = [idea EXCEPT !.Antagonist = antagonist]
                            /\ selectedTags' = Append(selectedTags, antagonist)
                            /\ activeTags' = [activeTags EXCEPT !.ANTAGONIST = Without(@, antagonist)]
                     ELSE /\ idea' = [idea EXCEPT !.Warnings =
                                 pushWarning(@, "Antagonist", 1, 1, "none compatible")]
                          /\ UNCHANGED <<selectedTags, activeTags>>
                ELSE /\ idea' = [idea EXCEPT !.Warnings =
                            pushWarning(@, "Antagonist", 1, 1, "none available")]
                     /\ UNCHANGED <<selectedTags, activeTags>>
       ELSE UNCHANGED <<idea, selectedTags, activeTags>>
    /\ UNCHANGED <<originalActiveTags, compatibilityData, params,
                   availableThemesEvents, availableFinales, availableSupport,
                   i, result>>

\* Step 7, before the loop (lines 541-549); a negative target is set to 0
Step7Support ==
    /\ pc = "support"
    /\ UNCHANGED <<ctl, app, fn>>
    /\ params' = IF params.num_support_target < 0
                 THEN [params EXCEPT !.num_support_target = 0]
                 ELSE params
    /\ availableSupport' = NotSelected(activeTags.SUPPORTINGCHARACTER, selectedTags)
    /\ i' = 0
    /\ pc' = "support_loop"
    /\ UNCHANGED <<originalActiveTags, activeTags, compatibilityData, idea,
                   selectedTags, availableThemesEvents, availableFinales, result>>

\* Step 7, one iteration of the loop or its exit (lines 549-569)
Step7SupportLoop ==
    /\ pc = "support_loop"
    /\ UNCHANGED <<ctl, app, fn>>
    /\ IF ~loopCondition(i, params.num_support_target)
       THEN /\ pc' = "score"
            /\ UNCHANGED <<originalActiveTags, activeTags, compatibilityData,
                           params, idea, selectedTags, availableThemesEvents,
                           availableFinales, availableSupport, i, result>>
       ELSE IF Len(availableSupport) = 0
       THEN /\ idea' = [idea EXCEPT !.Warnings =
                   pushWarning(@, "SupportingCharacter", i + 1, params.num_support_target, "none remaining")]
            /\ pc' = "score"
            /\ UNCHANGED <<originalActiveTags, activeTags, compatibilityData,
                           params, selectedTags, availableThemesEvents,
                           availableFinales, availableSupport, i, result>>
       ELSE LET compatibleSupport ==
                    optionalCandidates(availableSupport, selectedTags,
                                       compatibilityData, params.min_score)
            IN  IF Len(compatibleSupport) > 0
                THEN \E chosenSupport \in getRandomElement(compatibleSupport) :
                       /\ idea' = [idea EXCEPT !.SupportingChars = Append(@, chosenSupport)]
                       /\ selectedTags' = Append(selectedTags, chosenSupport)
                       /\ availableSupport' = Without(availableSupport, chosenSupport)
                       /\ activeTags' = [activeTags EXCEPT
                              !.SUPPORTINGCHARACTER = Without(@, chosenSupport)]
                       /\ i' = i + 1
                       /\ pc' = "support_loop"
                       /\ UNCHANGED <<originalActiveTags, compatibilityData, params,
                                      availableThemesEvents, availableFinales, result>>
                ELSE /\ idea' = [idea EXCEPT !.Warnings =
                            pushWarning(@, "SupportingCharacter", i + 1, params.num_support_target, "none compatible")]
                     /\ pc' = "score"
                     /\ UNCHANGED <<originalActiveTags, activeTags,
                                    compatibilityData, params, selectedTags,
                                    availableThemesEvents, availableFinales,
                                    availableSupport, i, result>>

-----------------------------------------------------------------------------
\* Step 8, scoring (lines 572-598)

\* genreWeightMap: each genre mapped to the weight at its index (1.0 when the
\* weight list is too short); a later set() of the same key overwrites
genreWeightMap(genres, weights) ==
    [g \in Range(genres) |->
        LET last == CHOOSE k \in 1..Len(genres) :
                        /\ genres[k] = g
                        /\ \A m \in (k + 1)..Len(genres) : genres[m] # g
        IN  IF last <= Len(weights) THEN weights[last] ELSE 100]

\* genreWeightMap.get(tag) ?? 1.0
weightOf(tag, weightMap) == IF tag \in DOMAIN weightMap THEN weightMap[tag] ELSE 100

\* mutant: both directions weighted by the weight of tagA
weightedPairScore_WeightA(tagA, tagB, weightMap, cd) ==
    getCompatibilityScore(tagA, tagB, cd) * weightOf(tagA, weightMap)
    + getCompatibilityScore(tagB, tagA, cd) * weightOf(tagA, weightMap)

\* (scoreForward * weightA) + (scoreReverse * weightB), in thousandths
weightedPairScore(tagA, tagB, weightMap, cd) ==
    getCompatibilityScore(tagA, tagB, cd) * weightOf(tagA, weightMap)
    + getCompatibilityScore(tagB, tagA, cd) * weightOf(tagB, weightMap)

\* the two nested loops, as a running total; a is the outer and b the inner index
RECURSIVE pairLoop(_, _, _, _, _, _)
pairLoop(selected, weightMap, cd, a, b, totalScore) ==
    IF a > Len(selected) THEN totalScore
    ELSE IF b > Len(selected) THEN pairLoop(selected, weightMap, cd, a + 1, a + 2, totalScore)
    ELSE pairLoop(selected, weightMap, cd, a, b + 1,
                  totalScore + weightedPairScore(selected[a], selected[b], weightMap, cd))

\* Math.round(totalScore * 10) / 10, totalScore in thousandths, result in tenths
roundToTenths(totalScore) == (totalScore + 50) \div 100

calculateTotalScore(selected, genres, weights, cd) ==
    roundToTenths(pairLoop(selected, genreWeightMap(genres, weights), cd, 1, 2, 0))

\* mutant: the copy lists the tags from the last selected to the first
allTagsOf_Reversed(selected) == [k \in 1..Len(selected) |-> selected[Len(selected) + 1 - k]]

\* idea.AllTags = [...selectedTags]
allTagsOf(selected) == [k \in 1..Len(selected) |-> selected[k]]

\* Step 8 and the return (lines 572-603)
Step8Score ==
    /\ pc = "score"
    /\ UNCHANGED <<ctl, app, fn>>
    /\ LET scored == [idea EXCEPT
                        !.TotalScore = calculateTotalScore(selectedTags, idea.Genres,
                                                           idea.GenreWeights, compatibilityData),
                        !.AllTags = allTagsOf(selectedTags)]
       IN  /\ idea' = scored
           /\ result' = IdeaResult(scored)
    /\ pc' = "done"
    /\ UNCHANGED <<originalActiveTags, activeTags, compatibilityData, params,
                   selectedTags, availableThemesEvents, availableFinales,
                   availableSupport, i>>

Next ==
    \/ CheckParams
    \/ Step1FirstGenre
    \/ Step1SecondGenre
    \/ Step1ThirdGenre
    \/ Step1GenreWeights
    \/ Step2Setting
    \/ Step3Protagonist
    \/ Step4Themes
    \/ Step4ThemesLoop
    \/ Step5Finales
    \/ Step5FinalesLoop
    \/ Step6Antagonist
    \/ Step7Support
    \/ Step7SupportLoop
    \/ Step8Score

Spec == Init /\ [][Next]_vars

\* one call of generateMovieIdea whose parameter record may lack a parameter
ParamInit ==
    /\ originalActiveTags \in {BasePool, SmallPool}
    /\ activeTags = originalActiveTags
    /\ compatibilityData \in {MatrixOf(1), MatrixOf(2)}
    /\ params \in MissingParamSet \cup {generationParams}
    /\ idea = NewIdea
    /\ selectedTags = <<>>
    /\ availableThemesEvents = <<>>
    /\ availableFinales = <<>>
    /\ availableSupport = <<>>
    /\ i = 0
    /\ pc = "params"
    /\ result = Pending
    /\ NoRetry
    /\ NoBatch
    /\ NoCall

ParamSpec == ParamInit /\ [][Next]_vars

-----------------------------------------------------------------------------
\* Properties of the Selection Engine

\* the larger of the two directional scores of a pair, missing entries being 0
PairMax(t, e) ==
    LET forward == IF t \in DOMAIN compatibilityData /\ e \in DOMAIN compatibilityData[t]
                   THEN compatibilityData[t][e] ELSE 0
        reverse == IF e \in DOMAIN compatibilityData /\ t \in DOMAIN compatibilityData[e]
                   THEN compatibilityData[e][t] ELSE 0
    IN  IF forward >= reverse THEN forward ELSE reverse

\* max(0, min_score - 1.0)
FallbackThreshold == IF params.min_score - 10 >= 0 THEN params.min_score - 10 ELSE 0

Returned == result.kind = "idea"

\* the tag list passes the Candidate Filter for t at threshold thr
Passes(t, existing, thr) == \A k \in 1..Len(existing) : PairMax(t, existing[k]) >= thr

\* the members of a candidate list that pass the Candidate Filter
Passing(candidates, existing, thr) == {t \in Range(candidates) : Passes(t, existing, thr)}

\* C1: in every returned idea every selected tag other than the first genre
\* reaches, with every tag selected before it, a pair score (the larger of the
\* two directions) of at least the fallback threshold max(0, min_score - 1.0).
C1_FallbackFloor ==
    Returned =>
        \A j \in 2..Len(result.idea.AllTags) : \A e \in 1..(j - 1) :
            PairMax(result.idea.AllTags[j], result.idea.AllTags[e]) >= FallbackThreshold

\* a returned idea in which some tag was admitted below min_score, by the fallback
C1_Witness ==
    /\ Returned
    /\ \E j \in 2..Len(result.idea.AllTags) : \E e \in 1..(j - 1) :
          /\ PairMax(result.idea.AllTags[j], result.idea.AllTags[e]) < params.min_score
          /\ PairMax(result.idea.AllTags[j], result.idea.AllTags[e]) >= FallbackThreshold

\* positions in AllTags of the picks that are optional or follow the first pick
\* of their slot: themes/events after the first, finales after the first, the
\* antagonist and the supporting characters
OptionalPositions(r) ==
    LET base == Len(r.Genres) + 2
        themes == Len(r.ThemesEvents)
        finales == Len(r.Finales)
    IN  {base + k : k \in 2..themes}
        \cup {base + themes + k : k \in 2..finales}
        \cup ((base + themes + finales + 1)..Len(r.AllTags))

\* C2: in every returned idea every theme/event after the first, every finale
\* after the first, the antagonist and every supporting character reaches
\* min_score (not only the fallback threshold) with every tag selected before it.
C2_OptionalStrictOnly ==
    Returned =>
        \A j \in OptionalPositions(result.idea) : \A e \in 1..(j - 1) :
            PairMax(result.idea.AllTags[j], result.idea.AllTags[e]) >= params.min_score

\* a returned idea with a second theme/event and a supporting character, in
\* which some earlier pick was admitted below min_score
C2_Witness ==
    /\ Returned
    /\ Len(result.idea.ThemesEvents) >= 2
    /\ Len(result.idea.SupportingChars) >= 1
    /\ \E j \in 2..Len(result.idea.AllTags) : \E e \in 1..(j - 1) :
          PairMax(result.idea.AllTags[j], result.idea.AllTags[e]) < params.min_score

\* the run stands before a mandatory pick that filters against earlier tags
AtMandatoryPick ==
    \/ pc = "genre2" /\ params.num_genres_target >= 2
    \/ pc = "genre3" /\ params.num_genres_target = 3
    \/ pc = "setting"
    \/ pc = "protagonist"
    \/ pc = "themes_loop" /\ i = 0
    \/ pc = "finales_loop" /\ i = 0

\* the candidate list of that pick
MandatoryPool ==
    CASE pc \in {"genre2", "genre3"} -> activeTags.GENRES
      [] pc = "setting" -> activeTags.SETTING
      [] pc = "protagonist" -> activeTags.PROTAGONIST
      [] pc = "themes_loop" -> availableThemesEvents
      [] pc = "finales_loop" -> availableFinales
      [] OTHER -> <<>>

\* the step appends one member of the set to the selected tags
Picks(set) ==
    /\ Len(selectedTags') = Len(selectedTags) + 1
    /\ SubSeq(selectedTags', 1, Len(selectedTags)) = selectedTags
    /\ selectedTags'[Len(selectedTags')] \in set
    /\ result' = Pending

MandatoryPickStep ==
    LET strict == Passing(MandatoryPool, selectedTags, params.min_score)
        relaxed == Passing(MandatoryPool, selectedTags, FallbackThreshold)
    IN  IF strict # {} THEN Picks(strict)
        ELSE IF relaxed # {} THEN Picks(relaxed)
        ELSE result'.kind = "null" /\ selectedTags' = selectedTags

\* C3: at every mandatory pick (2nd genre, 3rd genre, setting, protagonist,
\* first theme/event, first finale) the chosen tag passes the Candidate Filter
\* at min_score whenever some candidate of the slot's pool does; a tag that
\* passes only at the fallback threshold is chosen only when none passes at
\* min_score; when none passes at the fallback threshold no tag is chosen and
\* the run returns null.
C3_StrictBeforeFallback == [][AtMandatoryPick => MandatoryPickStep]_vars

\* a setting was just chosen that passes only at the fallback threshold, out
\* of a pool of two
C3_Witness ==
    /\ pc = "protagonist"
    /\ Len(activeTags.SETTING) = 2
    /\ ~Passes(idea.Setting, idea.Genres, params.min_score)
    /\ Passes(idea.Setting, idea.Genres, FallbackThreshold)

\* a fatal condition holds at the current position of the run
FatalCondition ==
    \/ pc = "genre1" /\ Len(activeTags.GENRES) = 0
    \/ pc = "setting" /\ Len(activeTags.SETTING) = 0
    \/ pc = "protagonist" /\ Len(activeTags.PROTAGONIST) = 0
    \/ pc = "themes" /\ Range(activeTags.THEME_and_EVENTS) \ Range(selectedTags) = {}
    \/ pc = "finales" /\ Range(activeTags.FINALE) \ Range(selectedTags) = {}
    \/ AtMandatoryPick /\ Passing(MandatoryPool, selectedTags, FallbackThreshold) = {}

\* the run is over and the GENRES pool it was given had fewer distinct tags
\* than num_genres_target
ShortOfGenres ==
    /\ pc = "done"
    /\ Cardinality(Range(originalActiveTags.GENRES)) < params.num_genres_target

\* every mandatory slot of the record is filled
MandatoryFilled(r) ==
    /\ Len(r.Genres) = params.num_genres_target
    /\ r.Setting # NullTag
    /\ r.Protagonist # NullTag
    /\ Len(r.ThemesEvents) >= 1
    /\ Len(r.Finales) >= 1

\* C4: a fatal condition (an empty pool for genres, setting, protagonist,
\* themes/events or finales, no candidate after the fallback for a mandatory
\* pick, fewer distinct genres in the pool than num_genres_target) makes the
\* run return null, and a returned idea is never partial.
C4_FatalReturnsNull ==
    /\ [](ShortOfGenres => result.kind = "null")
    /\ [](Returned => MandatoryFilled(result.idea))
    /\ [][FatalCondition => (pc' = "done" /\ result'.kind = "null")]_vars

\* num_genres_target = 3 with two distinct genres in the pool: two genres were
\* selected, the pool ran dry and the run returned null
C4_Witness ==
    /\ pc = "done"
    /\ result.kind = "null"
    /\ params.num_genres_target = 3
    /\ Cardinality(Range(originalActiveTags.GENRES)) = 2
    /\ Len(idea.Genres) = 2

\* C5: every returned idea satisfies the slot cardinalities: as many genres as
\* num_genres_target, a setting and a protagonist, between 1 and
\* num_themes_target themes/events, between 1 and num_finales_target finales,
\* at most num_support_target supporting characters, and no antagonist when
\* add_antagonist is false.
C5_SlotCardinalities ==
    Returned =>
        /\ Len(result.idea.Genres) = params.num_genres_target
        /\ result.idea.Setting # NullTag
        /\ result.idea.Protagonist # NullTag
        /\ Len(result.idea.ThemesEvents) >= 1
        /\ Len(result.idea.ThemesEvents) <= params.num_themes_target
        /\ Len(result.idea.Finales) >= 1
        /\ Len(result.idea.Finales) <= params.num_finales_target
        /\ Len(result.idea.SupportingChars) <= params.num_support_target
        /\ (~params.add_antagonist => result.idea.Antagonist = NullTag)

\* a returned idea with every slot filled up to the largest targets
C5_Witness ==
    /\ Returned
    /\ Len(result.idea.Genres) = 3
    /\ Len(result.idea.ThemesEvents) = 3
    /\ Len(result.idea.Finales) = 2
    /\ result.idea.Antagonist # NullTag
    /\ Len(result.idea.SupportingChars) = 2

\* the run is past its last mandatory pick of the current slot: it stands at
\* a 2nd/3rd theme/event, a 2nd finale, the antagonist, a supporting character
\* or the scoring
PastMandatory ==
    \/ pc \in {"themes_loop", "finales_loop"} /\ i > 0
    \/ pc \in {"antagonist", "support", "support_loop", "score"}

\* C6: an optional pick never makes the run return null: no step at a 2nd/3rd
\* theme/event, a 2nd finale, the antagonist or a supporting character ends
\* the run with null, and a run whose mandatory slots were all filled ends
\* with a returned idea.
C6_OptionalNeverFatal ==
    /\ []((pc = "done" /\ MandatoryFilled(idea)) => Returned)
    /\ [][PastMandatory => result'.kind # "null"]_vars

\* a returned idea in which every optional target was missed
C6_Witness ==
    /\ Returned
    /\ Len(result.idea.ThemesEvents) < params.num_themes_target
    /\ Len(result.idea.Finales) < params.num_finales_target
    /\ params.add_antagonist
    /\ result.idea.Antagonist = NullTag
    /\ Len(result.idea.SupportingChars) < params.num_support_target

\* the slots a warning can be about
WarningSlots == {"ThemeEvent", "Finale", "Antagonist", "SupportingCharacter"}

\* the slot of the record is filled below its target
UnderFilled(r, slot) ==
    CASE slot = "ThemeEvent" -> Len(r.ThemesEvents) < params.num_themes_target
      [] slot = "Finale" -> Len(r.Finales) < params.num_finales_target
      [] slot = "Antagonist" -> params.add_antagonist /\ r.Antagonist = NullTag
      [] slot = "SupportingCharacter" -> Len(r.SupportingChars) < params.num_support_target

\* the number of tags the record holds in the slot
Filled(r, slot) ==
    CASE slot = "ThemeEvent" -> Len(r.ThemesEvents)
      [] slot = "Finale" -> Len(r.Finales)
      [] slot = "Antagonist" -> 0
      [] slot = "SupportingCharacter" -> Len(r.SupportingChars)

\* positions of the warnings of the record that are about the slot
WarningsAbout(r, slot) == {k \in 1..Len(r.Warnings) : r.Warnings[k].slot = slot}

\* C7: in a returned idea Warnings holds exactly one message for each
\* under-filled slot (themes/events, finales, antagonist requested but not
\* selected, supporting characters), about the first unmet position of that
\* slot, and no other message; it is empty when every target is met.
C7_OneWarningPerUnderfill ==
    Returned =>
        /\ \A k \in 1..Len(result.idea.Warnings) : result.idea.Warnings[k].slot \in WarningSlots
        /\ \A slot \in WarningSlots :
              /\ Cardinality(WarningsAbout(result.idea, slot))
                    = IF UnderFilled(result.idea, slot) THEN 1 ELSE 0
              /\ \A k \in WarningsAbout(result.idea, slot) :
                    result.idea.Warnings[k].number = Filled(result.idea, slot) + 1

\* num_support_target = 2, one supporting character selected, another left in
\* the pool that is not compatible at min_score, and one warning about the
\* second supporting slot
C7_Witness ==
    /\ Returned
    /\ params.num_support_target = 2
    /\ Len(result.idea.SupportingChars) = 1
    /\ Len(availableSupport) >= 1
    /\ \E k \in 1..Len(result.idea.Warnings) :
          /\ WarningsAbout(result.idea, "SupportingCharacter") = {k}
          /\ result.idea.Warnings[k].number = 2
          /\ result.idea.Warnings[k].reason = "none compatible"

\* C8: the AllTags list of a returned idea never holds the same tag twice.
C8_NoDuplicates ==
    Returned =>
        \A a \in 1..Len(result.idea.AllTags) : \A b \in 1..Len(result.idea.AllTags) :
            a # b => result.idea.AllTags[a] # result.idea.AllTags[b]

\* the fixed table of weight tuples, in hundredths
WeightTable(count) ==
    CASE count = 1 -> {<<100>>}
      [] count = 2 -> {<<50, 50>>, <<65, 35>>, <<80, 20>>}
      [] count = 3 -> {<<40, 30, 30>>, <<60, 20, 20>>}
      [] OTHER -> {}

RECURSIVE SeqSum(_)
SeqSum(w) == IF Len(w) = 0 THEN 0 ELSE w[1] + SeqSum(Tail(w))

\* C9: in every returned idea GenreWeights is as long as Genres, is one tuple
\* of the fixed table for that genre count, and sums to 1.0.
C9_GenreWeightsFromTable ==
    Returned =>
        /\ Len(result.idea.GenreWeights) = Len(result.idea.Genres)
        /\ result.idea.GenreWeights \in WeightTable(Len(result.idea.Genres))
        /\ SeqSum(result.idea.GenreWeights) = 100

\* a returned idea with three genres weighted 0.6 / 0.2 / 0.2
C9_Witness ==
    /\ Returned
    /\ Len(result.idea.Genres) = 3
    /\ result.idea.GenreWeights = <<60, 20, 20>>

\* the directional score of the matrix, 0 for a missing entry
DirScore(a, b) ==
    IF a \in DOMAIN compatibilityData /\ b \in DOMAIN compatibilityData[a]
    THEN compatibilityData[a][b] ELSE 0

\* the weight of a tag of the record: its genre weight when the tag is one of
\* the genres, 1.0 otherwise
TagWeight(r, t) ==
    IF t \in Range(r.Genres)
    THEN r.GenreWeights[CHOOSE k \in 1..Len(r.Genres) : r.Genres[k] = t]
    ELSE 100

\* score(a->b) * weight(a) + score(b->a) * weight(b) for positions a, b of AllTags
PairTerm(r, a, b) ==
    DirScore(r.AllTags[a], r.AllTags[b]) * TagWeight(r, r.AllTags[a])
    + DirScore(r.AllTags[b], r.AllTags[a]) * TagWeight(r, r.AllTags[b])

RECURSIVE PairSum(_, _)
PairSum(r, pairs) ==
    IF pairs = {} THEN 0
    ELSE LET p == CHOOSE q \in pairs : TRUE
         IN  PairTerm(r, p[1], p[2]) + PairSum(r, pairs \ {p})

\* the sum over every unordered pair of positions of AllTags, in thousandths
WeightedSum(r) ==
    PairSum(r, {p \in (1..Len(r.AllTags)) \X (1..Len(r.AllTags)) : p[1] < p[2]})

-----------------------------------------------------------------------------
\* generateMovieIdeaWithRetry (lines 277-312)

MAX_GENERATION_ATTEMPTS == 3

\* 44.0, in tenths
MIN_REQUIRED_SCORE == 440

\* a pool with three genres and two protagonists, one tag in every other category
RetryPool ==
    [GENRES |-> <<"G1", "G2", "G3">>,
     SETTING |-> <<"S1">>,
     PROTAGONIST |-> <<"P1", "P2">>,
     THEME_and_EVENTS |-> <<"T1">>,
     THEME |-> <<"T1">>,
     EVENT |-> <<>>,
     FINALE |-> <<"F1">>,
     ANTAGONIST |-> <<>>,
     SUPPORTINGCHARACTER |-> <<"C1">>]

\* a matrix whose ideas all total below 44.0: every pair scores 2.0 in one
\* direction and has no entry in the other
LowMatrix == [a \in Tags |-> [b \in {t \in Tags : Idx(t) > Idx(a)} |-> 20]]

\* a matrix whose ideas total above 44.0 with genre G1 and below it with genre
\* G2, and in which genre G3 has no compatible setting
MixedMatrix ==
    LET row(a) == {b \in Tags \ {a} : /\ ("G1" \in {a, b} \/ Idx(a) < Idx(b))
                                      /\ {a, b} # {"G3", "S1"}}
        score(a, b) == IF "G1" \in {a, b} THEN 50 ELSE IF b = "P2" THEN 30 ELSE 20
    IN  [a \in Tags |-> [b \in row(a) |-> score(a, b)]]

\* parameter records asking for one genre, one theme/event, one finale, no
\* antagonist and at most one supporting character, at min_score 2.0
RetryParamSet ==
    {[generationParams EXCEPT !.min_score = 20, !.num_genres_target = 1,
                              !.num_themes_target = 1, !.num_finales_target = 1,
                              !.num_support_target = n, !.add_antagonist = FALSE]
        : n \in 0..1}

\* the arguments of a call of generateMovieIdeaWithRetry
RetryInputs ==
    {[pool |-> RetryPool, matrix |-> m, params |-> q] :
        m \in {LowMatrix, MixedMatrix}, q \in RetryParamSet}
    \cup {[pool |-> SmallPool, matrix |-> MatrixOf(k), params |-> generationParams] :
            k \in 1..2}

\* a pool object with no tags: the working pool before the first copy is made
EmptyPool == [c \in DOMAIN BasePool |-> <<>>]

\* JSON.parse(JSON.stringify(pool)): a new object holding, category by
\* category, a new array of the same strings
deepCopy(pool) == [c \in DOMAIN pool |-> [k \in 1..Len(pool[c]) |-> pool[c][k]]]

\* mutant: attempts after the first go on with the pool the previous attempt left
attemptPool_Reuse(original, working) ==
    IF working = EmptyPool THEN deepCopy(original) ELSE working

\* activeTagsForAttempt: the working pool handed to an attempt (line 284)
attemptPool(original, working) == deepCopy(original)

\* mutant: a failed copy makes the call return null
copyFailureResult_Null(last) == NullResult

\* catch (e) { ... return lastGeneratedIdea; }
copyFailureResult(last) == last

RetryInit ==
    /\ \E inp \in RetryInputs :
          /\ originalActiveTags = inp.pool
          /\ compatibilityData = inp.matrix
          /\ params = inp.params
    /\ copyMayFail \in BOOLEAN
    /\ activeTags = EmptyPool
    /\ idea = NewIdea
    /\ selectedTags = <<>>
    /\ availableThemesEvents = <<>>
    /\ availableFinales = <<>>
    /\ availableSupport = <<>>
    /\ i = 0
    /\ pc = "idle"
    /\ result = Pending
    /\ attempt = 1
    /\ lastGeneratedIdea = NullResult
    /\ attemptResults = <<>>
    /\ copyFailed = FALSE
    /\ rpc = "loop"
    /\ retryResult = Pending
    /\ NoBatch
    /\ NoCall

\* the head of an iteration (lines 280-290): the pool is deep-copied and
\* generateMovieIdea is entered with the copy; a copy that throws makes the
\* call return lastGeneratedIdea
RetryCopy ==
    /\ rpc = "loop"
    /\ \/ /\ copyMayFail
          /\ copyFailed' = TRUE
          /\ retryResult' = copyFailureResult(lastGeneratedIdea)
          /\ rpc' = "returned"
          /\ UNCHANGED <<activeTags, idea, selectedTags, availableThemesEvents,
                         availableFinales, availableSupport, i, pc, result>>
       \/ /\ activeTags' = attemptPool(originalActiveTags, activeTags)
          /\ idea' = NewIdea
          /\ selectedTags' = <<>>
          /\ availableThemesEvents' = <<>>
          /\ availableFinales' = <<>>
          /\ availableSupport' = <<>>
          /\ i' = 0
          /\ pc' = "params"
          /\ result' = Pending
          /\ rpc' = "call"
          /\ UNCHANGED <<copyFailed, retryResult>>
    /\ UNCHANGED <<originalActiveTags, compatibilityData, params, attempt,
                   lastGeneratedIdea, attemptResults, copyMayFail>>
    /\ UNCHANGED <<app, fn>>

\* mutant: the score of an attempt is not looked at; every call runs all attempts
meetsRequiredScore_Never(currentIdea) == FALSE

\* currentIdea && currentIdea.TotalScore >= MIN_REQUIRED_SCORE
meetsRequiredScore(currentIdea) ==
    currentIdea.kind = "idea" /\ currentIdea.idea.TotalScore >= MIN_REQUIRED_SCORE

\* mutant: the loop allows one attempt more
isLastAttempt_OneLate(n) == n = MAX_GENERATION_ATTEMPTS + 1

\* mutant: the loop stops one attempt early
isLastAttempt_OneEarly(n) == n = MAX_GENERATION_ATTEMPTS - 1

\* attempt === MAX_GENERATION_ATTEMPTS
isLastAttempt(n) == n = MAX_GENERATION_ATTEMPTS

\* generateMovieIdea has returned (lines 290-311): the result becomes
\* lastGeneratedIdea; it is returned when it reaches MIN_REQUIRED_SCORE or when
\* this was the last attempt, otherwise the loop goes on
RetryAttemptEnd ==
    /\ rpc = "call"
    /\ pc = "done"
    /\ LET currentIdea == result
       IN  /\ lastGeneratedIdea' = currentIdea
           /\ attemptResults' = Append(attemptResults, currentIdea)
           /\ IF meetsRequiredScore(currentIdea)
              THEN /\ retryResult' = currentIdea
                   /\ rpc' = "returned"
                   /\ attempt' = attempt
              ELSE IF isLastAttempt(attempt)
              THEN /\ retryResult' = currentIdea
                   /\ rpc' = "returned"
                   /\ attempt' = attempt
              ELSE /\ retryResult' = retryResult
                   /\ rpc' = "loop"
                   /\ attempt' = attempt + 1
    /\ pc' = "idle"
    /\ UNCHANGED <<originalActiveTags, activeTags, compatibilityData, params,
                   idea, selectedTags, availableThemesEvents, availableFinales,
                   availableSupport, i, result, copyMayFail, copyFailed>>
    /\ UNCHANGED <<app, fn>>

RetryNext ==
    \/ RetryCopy
    \/ RetryAttemptEnd
    \/ Next

RetrySpec == RetryInit /\ [][RetryNext]_vars

\* parameter records with one target outside its range: below it (negative or
\* 0) or above it
RangeParamSet ==
    {[generationParams EXCEPT !.num_genres_target = n] : n \in {-1, 0, 4}}
    \cup {[generationParams EXCEPT !.num_themes_target = n] : n \in {-1, 0, 4}}
    \cup {[generationParams EXCEPT !.num_finales_target = n] : n \in {-1, 0, 3}}
    \cup {[generationParams EXCEPT !.num_support_target = n] : n \in {-2, -1}}

\* a call of generateMovieIdeaWithRetry, or a direct call of generateMovieIdea
\* with any parameter record: complete, lacking a parameter, or with a target
\* outside its range
RunInit ==
    \/ RetryInit
    \/ /\ originalActiveTags \in {BasePool, SmallPool}
       /\ activeTags = originalActiveTags
       /\ compatibilityData \in {MatrixOf(1), MatrixOf(2)}
       /\ params \in RangeParamSet \cup MissingParamSet \cup {generationParams}
       /\ idea = NewIdea
       /\ selectedTags = <<>>
       /\ availableThemesEvents = <<>>
       /\ availableFinales = <<>>
       /\ availableSupport = <<>>
       /\ i = 0
       /\ pc = "params"
       /\ result = Pending
       /\ NoRetry
       /\ NoBatch
       /\ NoCall

\* the call run by the JavaScript engine: the functions are synchronous, so a
\* step that can be taken is taken
RunSpec == RunInit /\ [][RetryNext]_vars /\ WF_vars(RetryNext)

-----------------------------------------------------------------------------
\* handleGenerateIdeas (src/src/App.vue lines 137-243).  The audience and
\* advertiser fields that the enrichment (lines 183-212) adds to an idea are
\* computed by calculator.js from AllTags and the static data; they are left
\* out of the idea records held here.

numberOfIdeasToGenerate == 6

\* invocations counted between line 163 and the finally block before the model
\* stops counting
MaxInProgress == 2

\* a selection with one tag in every category but two protagonists
BatchPool ==
    [GENRES |-> <<"G1">>,
     SETTING |-> <<"S1">>,
     PROTAGONIST |-> <<"P1", "P2">>,
     THEME_and_EVENTS |-> <<"T1">>,
     THEME |-> <<"T1">>,
     EVENT |-> <<>>,
     FINALE |-> <<"F1">>,
     ANTAGONIST |-> <<>>,
     SUPPORTINGCHARACTER |-> <<"C1">>]

\* the parameter records of a batch: the initial record and a record asking
\* for one tag per mandatory slot
BatchParamSet ==
    {generationParams,
     [generationParams EXCEPT !.min_score = 20, !.num_genres_target = 1,
                              !.num_themes_target = 1, !.num_finales_target = 1,
                              !.num_support_target = 0, !.add_antagonist = FALSE]}

RECURSIVE SumLengths(_, _)
SumLengths(pool, categories) ==
    IF categories = {} THEN 0
    ELSE LET c == CHOOSE x \in categories : TRUE
         IN  Len(pool[c]) + SumLengths(pool, categories \ {c})

\* Object.values(selectedTagsByCategory.value || {}).reduce(...)
totalSelected(pool) == SumLengths(pool, DOMAIN pool)

\* mutant: the guard does not look at isGenerating
canUseGenerator_IgnoresGenerating == staticDataLoaded

\* the computed property canUseGenerator (lines 40-47): the static data is
\* loaded (which sets selectedTagsByCategory) and no batch is in progress
canUseGenerator == staticDataLoaded /\ ~isGenerating

\* mutant: a run is handed the pool the previous run worked on
runPool_Leftover(canonical, working) ==
    IF working = EmptyPool THEN deepCopy(canonical) ELSE working

\* const tagsCopy = JSON.parse(JSON.stringify(selectedTagsByCategory.value))
runPool(canonical, working) == deepCopy(canonical)

\* the application after the static data was requested: loaded with some
\* selection, or failed
BatchInit ==
    /\ staticDataLoaded \in BOOLEAN
    /\ selectedTagsByCategory \in (IF staticDataLoaded THEN {BatchPool, EmptyPool}
                                                      ELSE {EmptyPool})
    /\ compatibilityData \in (IF staticDataLoaded THEN {MatrixOf(1), LowMatrix}
                                                 ELSE {LowMatrix})
    /\ params \in BatchParamSet
    /\ isGenerating = FALSE
    /\ generatedIdeas = <<>>
    /\ generationStatusMessage = ""
    /\ isGeneratorErrorStatus = FALSE
    /\ successfulIdeas = <<>>
    /\ batchIndex = 0
    /\ batchesInProgress = 0
    /\ bpc = "idle"
    /\ originalActiveTags = EmptyPool
    /\ activeTags = EmptyPool
    /\ idea = NewIdea
    /\ selectedTags = <<>>
    /\ availableThemesEvents = <<>>
    /\ availableFinales = <<>>
    /\ availableSupport = <<>>
    /\ i = 0
    /\ pc = "idle"
    /\ result = Pending
    /\ attempt = 0
    /\ lastGeneratedIdea = NullResult
    /\ attemptResults = <<>>
    /\ copyMayFail = FALSE
    /\ copyFailed = FALSE
    /\ rpc = "none"
    /\ retryResult = Pending
    /\ NoCall

\* an invocation of handleGenerateIdeas up to its first await (lines 137-173);
\* it can arrive while an earlier invocation is waiting
HandleGenerateIdeas ==
    /\ bpc \in {"idle", "await"}
    /\ batchesInProgress < MaxInProgress
    /\ IF ~canUseGenerator
       THEN /\ generationStatusMessage' =
                   (IF ~staticDataLoaded THEN "Cannot generate: Core data failed."
                    ELSE "Generation in progress...")
            /\ isGeneratorErrorStatus' = TRUE
            /\ UNCHANGED <<isGenerating, generatedIdeas, successfulIdeas,
                           batchesInProgress, bpc>>
       ELSE IF totalSelected(selectedTagsByCategory) = 0
       THEN /\ generationStatusMessage' = "Warning: No tags selected for generator."
            /\ isGeneratorErrorStatus' = FALSE
            /\ UNCHANGED <<isGenerating, generatedIdeas, successfulIdeas,
                           batchesInProgress, bpc>>
       ELSE /\ isGenerating' = TRUE
            /\ generationStatusMessage' = "Generating & Analyzing Ideas... Please wait."
            /\ isGeneratorErrorStatus' = FALSE
            /\ generatedIdeas' = <<>>
            /\ successfulIdeas' = <<>>
            /\ batchesInProgress' = batchesInProgress + 1
            /\ bpc' = "await"
    /\ UNCHANGED <<staticDataLoaded, selectedTagsByCategory, batchIndex>>
    /\ UNCHANGED <<originalActiveTags, activeTags, compatibilityData, params,
                   idea, selectedTags, availableThemesEvents, availableFinales,
                   availableSupport, i, pc, result>>
    /\ UNCHANGED <<ctl, fn>>

\* the timer of line 173 has fired: the loop starts
BatchResume ==
    /\ bpc = "await"
    /\ batchIndex' = 0
    /\ bpc' = "loop"
    /\ UNCHANGED <<staticDataLoaded, selectedTagsByCategory, isGenerating,
                   generatedIdeas, generationStatusMessage, isGeneratorErrorStatus,
                   successfulIdeas, batchesInProgress>>
    /\ UNCHANGED <<originalActiveTags, activeTags, compatibilityData, params,
                   idea, selectedTags, availableThemesEvents, availableFinales,
                   availableSupport, i, pc, result>>
    /\ UNCHANGED <<ctl, fn>>

\* one iteration up to the call (lines 175-181): the selection is deep-copied
\* and generateMovieIdeaWithRetry is entered with the copy
BatchRun ==
    /\ bpc = "loop"
    /\ batchIndex < numberOfIdeasToGenerate
    /\ originalActiveTags' = runPool(selectedTagsByCategory, activeTags)
    /\ attempt' = 1
    /\ lastGeneratedIdea' = NullResult
    /\ attemptResults' = <<>>
    /\ copyMayFail' = FALSE
    /\ copyFailed' = FALSE
    /\ rpc' = "loop"
    /\ retryResult' = Pending
    /\ bpc' = "call"
    /\ UNCHANGED <<staticDataLoaded, selectedTagsByCategory, isGenerating,
                   generatedIdeas, generationStatusMessage, isGeneratorErrorStatus,
                   successfulIdeas, batchIndex, batchesInProgress>>
    /\ UNCHANGED <<activeTags, compatibilityData, params, idea, selectedTags,
                   availableThemesEvents, availableFinales, availableSupport,
                   i, pc, result>>
    /\ UNCHANGED fn

\* generateMovieIdeaWithRetry has returned (lines 181-220): a non-null idea is
\* collected and the loop goes on
BatchRunEnd ==
    /\ bpc = "call"
    /\ rpc = "returned"
    /\ LET currentIdea == retryResult
       IN  successfulIdeas' = IF currentIdea.kind = "idea"
                              THEN Append(successfulIdeas, currentIdea.idea)
                              ELSE successfulIdeas
    /\ batchIndex' = batchIndex + 1
    /\ rpc' = "none"
    /\ bpc' = "loop"
    /\ UNCHANGED <<staticDataLoaded, selectedTagsByCategory, isGenerating,
                   generatedIdeas, generationStatusMessage, isGeneratorErrorStatus,
                   batchesInProgress>>
    /\ UNCHANGED <<originalActiveTags, activeTags, compatibilityData, params,
                   idea, selectedTags, availableThemesEvents, availableFinales,
                   availableSupport, i, pc, result>>
    /\ UNCHANGED <<attempt, lastGeneratedIdea, attemptResults, copyMayFail,
                   copyFailed, retryResult>>
    /\ UNCHANGED fn

\* the loop is over (lines 222-242): the collected ideas are shown, the status
\* line is set and isGenerating is reset
BatchFinish ==
    /\ bpc = "loop"
    /\ batchIndex >= numberOfIdeasToGenerate
    /\ generatedIdeas' = successfulIdeas
    /\ IF Len(successfulIdeas) = 0
       THEN /\ generationStatusMessage' = "Could not generate valid ideas."
            /\ isGeneratorErrorStatus' = TRUE
       ELSE /\ generationStatusMessage' = "Generation complete."
            /\ isGeneratorErrorStatus' = FALSE
    /\ isGenerating' = FALSE
    /\ batchesInProgress' = batchesInProgress - 1
    /\ bpc' = "idle"
    /\ UNCHANGED <<staticDataLoaded, selectedTagsByCategory, successfulIdeas,
                   batchIndex>>
    /\ UNCHANGED <<originalActiveTags, activeTags, compatibilityData, params,
                   idea, selectedTags, availableThemesEvents, availableFinales,
                   availableSupport, i, pc, result>>
    /\ UNCHANGED <<ctl, fn>>

\* an exception reaches the outer catch (lines 236-240) from a place of the
\* outer try block that no inner try encloses (the await of line 173, the loop
\* header and the lines after the loop): the status line reports it, no idea
\* is shown, and the finally block (lines 241-243) resets isGenerating
BatchFail ==
    /\ bpc \in {"await", "loop"}
    /\ generationStatusMessage' = "Unexpected error"
    /\ isGeneratorErrorStatus' = TRUE
    /\ generatedIdeas' = <<>>
    /\ isGenerating' = FALSE
    /\ batchesInProgress' = batchesInProgress - 1
    /\ bpc' = "idle"
    /\ UNCHANGED <<staticDataLoaded, selectedTagsByCategory, successfulIdeas,
                   batchIndex>>
    /\ UNCHANGED <<originalActiveTags, activeTags, compatibilityData, params,
                   idea, selectedTags, availableThemesEvents, availableFinales,
                   availableSupport, i, pc, result>>
    /\ UNCHANGED <<ctl, fn>>

BatchNext ==
    \/ HandleGenerateIdeas
    \/ BatchResume
    \/ BatchRun
    \/ BatchRunEnd
    \/ BatchFinish
    \/ BatchFail
    \/ RetryNext

BatchSpec == BatchInit /\ [][BatchNext]_vars

-----------------------------------------------------------------------------
\* Properties of the Retry Controller

\* generateMovieIdeaWithRetry has returned
RetryReturned == rpc = "returned"

\* the result of an attempt is an idea that totals at least 44.0
Qualifies(r) == r.kind = "idea" /\ r.idea.TotalScore >= 440

\* the attempts of the call made so far
Attempts == 1..Len(attemptResults)

\* C11: the call returns the result of the first attempt whose TotalScore is
\* at least 44.0, and no generation attempt is made after that attempt: an
\* attempt with such a result is the last one, the call has returned with
\* that result, and the generator is not running.
C11_FirstQualifyingReturned ==
    \A k \in Attempts :
        Qualifies(attemptResults[k]) =>
            /\ k = Len(attemptResults)
            /\ RetryReturned
            /\ retryResult = attemptResults[k]
            /\ pc = "idle"

\* the second attempt reached 44.0 after a first attempt that produced an
\* idea below 44.0
C11_Witness ==
    /\ RetryReturned
    /\ Len(attemptResults) = 2
    /\ attemptResults[1].kind = "idea"
    /\ ~Qualifies(attemptResults[1])
    /\ Qualifies(attemptResults[2])

C13_KeepsBest ==
    (RetryReturned /\ ~copyFailed) =>
        \A k \in Attempts :
            attemptResults[k].kind = "idea" =>
                /\ retryResult.kind = "idea"
                /\ retryResult.idea.TotalScore >= attemptResults[k].idea.TotalScore

\* C14: the caller's pool is never written, and every attempt enters
\* generateMovieIdea with a working pool equal to the caller's pool, so the
\* tags an earlier attempt removed are available again.
C14_AttemptsIsolated ==
    /\ [][originalActiveTags' = originalActiveTags]_vars
    /\ [](rpc = "call" /\ pc = "params" => activeTags = originalActiveTags)

\* the second attempt starts after a first attempt that selected a genre, and
\* that genre is in the working pool again
C14_Witness ==
    /\ rpc = "call"
    /\ pc = "params"
    /\ attempt = 2
    /\ attemptResults[1].kind = "idea"
    /\ attemptResults[1].idea.Genres[1] \in Range(activeTags.GENRES)

\* the result of the attempt before the current one, null when there is none
PreviousResult ==
    IF attemptResults = <<>> THEN NullResult ELSE attemptResults[Len(attemptResults)]

\* C15: when the deep copy of the pool fails, the call returns at once the
\* result of the previous attempt (null on the first attempt): the generator
\* is not entered for that attempt, and no attempt follows.
C15_CopyFailureAborts ==
    /\ [][(rpc = "loop" /\ copyFailed') =>
            /\ rpc' = "returned"
            /\ retryResult' = PreviousResult
            /\ pc' = "idle"
            /\ attemptResults' = attemptResults]_vars
    /\ [](copyFailed => (RetryReturned /\ pc = "idle" /\ retryResult = PreviousResult))

\* the copy failed on the second attempt and the idea of the first was returned
C15_Witness ==
    /\ copyFailed
    /\ Len(attemptResults) = 1
    /\ retryResult.kind = "idea"

-----------------------------------------------------------------------------
\* Properties of the batch

\* C17: in a batch of handleGenerateIdeas the selection selectedTagsByCategory
\* is never written, every run is handed a pool equal to the selection, and
\* every entry into the generator finds a working pool equal to the
\* selection, so a tag that one run removed from its working pool is
\* available to every other run.
C17_BatchRunsIsolated ==
    /\ [][selectedTagsByCategory' = selectedTagsByCategory]_vars
    /\ [](bpc = "call" => originalActiveTags = selectedTagsByCategory)
    /\ []((bpc = "call" /\ rpc = "call" /\ pc = "params")
            => activeTags = selectedTagsByCategory)

\* the sixth run enters the generator after five runs that each selected
\* (and removed from their working pool) the only genre, which is in the
\* working pool again
C17_Witness ==
    /\ bpc = "call"
    /\ rpc = "call"
    /\ pc = "params"
    /\ batchIndex = 5
    /\ Len(successfulIdeas) = 5
    /\ \A k \in 1..5 : successfulIdeas[k].Genres = <<"G1">>
    /\ "G1" \in Range(activeTags.GENRES)

-----------------------------------------------------------------------------
\* Properties of the parameter check

\* some required parameter is absent from the parameter record
ParamMissing == \E q \in ParamNames : q \notin DOMAIN params

\* C16: when one of the six required parameters is absent, generateMovieIdea
\* returns null, selects no tag, builds no idea and leaves the pool it was
\* given as it was.
C16_MissingParamReturnsNull ==
    ParamMissing =>
        /\ pc \in {"params", "done"}
        /\ (pc = "done" => result.kind = "null")
        /\ selectedTags = <<>>
        /\ idea = NewIdea
        /\ activeTags = originalActiveTags

\* a run without add_antagonist, the last parameter checked, has returned
C16_Witness ==
    /\ "add_antagonist" \notin DOMAIN params
    /\ pc = "done"
    /\ result.kind = "null"

-----------------------------------------------------------------------------
\* The helper functions isCompatibleWithAll and findCompatibleTags called
\* directly, on arguments of the caller's choice

FilterTags == {"G1", "G2", "S1"}

\* the ordered pairs whose entry varies over the matrices; G2 and S1 have no
\* entry with each other, and no tag has an entry with itself
FilterPairs == {<<"G1", "G2">>, <<"G2", "G1">>, <<"G1", "S1">>, <<"S1", "G1">>}

\* an entry of a matrix: missing, 0.0 or 5.0
FilterEntries == {<<>>, <<0>>, <<50>>}

\* the matrix object with the given entries: a row exists when it has an entry
FilterMatrix(e) ==
    LET cols(a) == {b \in FilterTags : <<a, b>> \in FilterPairs /\ e[<<a, b>>] # <<>>}
        rows == {a \in FilterTags : cols(a) # {}}
    IN  [a \in rows |-> [b \in cols(a) |-> e[<<a, b>>][1]]]

FilterMatrices == {FilterMatrix(e) : e \in [FilterPairs -> FilterEntries]}

\* thresholds: 0, 3.0 and one above every score
FilterThresholds == {0, 30, 60}

\* lists of existing tags: up to two different tags
FilterExisting ==
    {<<>>} \cup {<<a>> : a \in FilterTags}
           \cup {p \in FilterTags \X FilterTags : p[1] # p[2]}

\* candidate lists: empty (a missing list is the same case at line 245: the
\* model's lists have no undefined value), in both orders, with a repeated tag
FilterCandidates ==
    {<<>>, <<"G1">>, <<"G2", "S1">>, <<"S1", "G2">>, <<"G1", "G2", "S1">>,
     <<"S1", "G2", "G1">>, <<"G2", "G2">>, <<"G2", "S1", "G2">>}

FilterInit ==
    /\ compatibilityData \in FilterMatrices
    /\ args \in [candidateTag : FilterTags, candidateTags : FilterCandidates,
                 existingTags : FilterExisting, requiredScore : FilterThresholds]
    /\ returned = [fn |-> "none"]
    /\ fpc = "ready"
    /\ originalActiveTags = EmptyPool
    /\ activeTags = EmptyPool
    /\ params = generationParams
    /\ idea = NewIdea
    /\ selectedTags = <<>>
    /\ availableThemesEvents = <<>>
    /\ availableFinales = <<>>
    /\ availableSupport = <<>>
    /\ i = 0
    /\ pc = "idle"
    /\ result = Pending
    /\ NoRetry
    /\ NoBatch

\* isCompatibleWithAll(candidateTag, existingTags, compatibilityData, requiredScore)
CallIsCompatibleWithAll ==
    /\ fpc = "ready"
    /\ returned' = [fn |-> "isCompatibleWithAll",
                    value |-> isCompatibleWithAll(args.candidateTag, args.existingTags,
                                                  compatibilityData, args.requiredScore)]
    /\ fpc' = "done"
    /\ UNCHANGED <<args, originalActiveTags, activeTags, compatibilityData, params,
                   idea, selectedTags, availableThemesEvents, availableFinales,
                   availableSupport, i, pc, result, ctl, app>>

\* isCompatibleWithAll on a pair of tags, with either tag as the candidate and
\* the other as the only existing tag
CallIsCompatibleBothWays ==
    /\ fpc = "ready"
    /\ Len(args.existingTags) = 1
    /\ LET A == args.candidateTag
           B == args.existingTags[1]
       IN  returned' = [fn |-> "bothWays",
                        AB |-> isCompatibleWithAll(A, <<B>>, compatibilityData,
                                                   args.requiredScore),
                        BA |-> isCompatibleWithAll(B, <<A>>, compatibilityData,
                                                   args.requiredScore)]
    /\ fpc' = "done"
    /\ UNCHANGED <<args, originalActiveTags, activeTags, compatibilityData, params,
                   idea, selectedTags, availableThemesEvents, availableFinales,
                   availableSupport, i, pc, result, ctl, app>>

\* findCompatibleTags(candidateTags, existingTags, compatibilityData, requiredScore)
CallFindCompatibleTags ==
    /\ fpc = "ready"
    /\ returned' = [fn |-> "findCompatibleTags",
                    value |-> findCompatibleTags(args.candidateTags, args.existingTags,
                                                 compatibilityData, args.requiredScore)]
    /\ fpc' = "done"
    /\ UNCHANGED <<args, originalActiveTags, activeTags, compatibilityData, params,
                   idea, selectedTags, availableThemesEvents, availableFinales,
                   availableSupport, i, pc, result, ctl, app>>

FilterNext ==
    \/ CallIsCompatibleWithAll
    \/ CallIsCompatibleBothWays
    \/ CallFindCompatibleTags

FilterSpec == FilterInit /\ [][FilterNext]_vars

-----------------------------------------------------------------------------
\* Properties of the helper functions

\* the entry of the matrix for the ordered pair, when there is one
HasEntry(a, b) == a \in DOMAIN compatibilityData /\ b \in DOMAIN compatibilityData[a]

\* the pair reaches the threshold in at least one direction, a missing entry
\* counting as 0
PairReaches(c, e, thr) ==
    \/ HasEntry(c, e) /\ compatibilityData[c][e] >= thr
    \/ HasEntry(e, c) /\ compatibilityData[e][c] >= thr
    \/ (~HasEntry(c, e) \/ ~HasEntry(e, c)) /\ 0 >= thr

\* C18: isCompatibleWithAll returns true exactly when the larger of the two
\* directional scores of the candidate with every existing tag, a missing
\* entry counting as 0, is at least the threshold; with no existing tag it
\* returns true for every candidate and threshold.
C18_CompatibleIffEveryPairReaches ==
    returned.fn = "isCompatibleWithAll" =>
        /\ returned.value
              = (\A e \in Range(args.existingTags) :
                    PairReaches(args.candidateTag, e, args.requiredScore))
        /\ (args.existingTags = <<>> => returned.value = TRUE)

\* the candidate is accepted against two existing tags at threshold 3.0, one
\* of them through the reverse entry alone, the forward entry being missing
C18_Witness ==
    /\ returned.fn = "isCompatibleWithAll"
    /\ returned.value = TRUE
    /\ args.requiredScore = 30
    /\ Len(args.existingTags) = 2
    /\ \E e \in Range(args.existingTags) :
          /\ ~HasEntry(args.candidateTag, e)
          /\ HasEntry(e, args.candidateTag)

\* C19: for every pair of tags, matrix and threshold, isCompatibleWithAll
\* gives the same answer whichever tag of the pair is the candidate; with
\* score(A,B) = 5.0 and score(B,A) = 0 both answers are true at threshold 3.0.
C19_CandidateOrderIrrelevant ==
    returned.fn = "bothWays" =>
        /\ returned.AB = returned.BA
        /\ LET A == args.candidateTag
               B == args.existingTags[1]
           IN  (/\ HasEntry(A, B) /\ compatibilityData[A][B] = 50
                /\ HasEntry(B, A) /\ compatibilityData[B][A] = 0
                /\ args.requiredScore = 30)
               => (returned.AB = TRUE /\ returned.BA = TRUE)

\* score(G1,G2) = 5.0, score(G2,G1) = 0, threshold 3.0: both calls returned true
C19_Witness ==
    /\ returned.fn = "bothWays"
    /\ args.candidateTag = "G1"
    /\ args.existingTags = <<"G2">>
    /\ args.requiredScore = 30
    /\ HasEntry("G1", "G2") /\ compatibilityData["G1"]["G2"] = 50
    /\ HasEntry("G2", "G1") /\ compatibilityData["G2"]["G1"] = 0
    /\ returned.AB = TRUE
    /\ returned.BA = TRUE

\* the positions of the candidate list whose tag passes isCompatibleWithAll
PassingPositions ==
    {k \in 1..Len(args.candidateTags) :
        isCompatibleWithAll(args.candidateTags[k], args.existingTags,
                            compatibilityData, args.requiredScore)}

\* the n-th passing position, in the order of the candidate list
NthPassing(n) ==
    CHOOSE k \in PassingPositions : Cardinality({m \in PassingPositions : m <= k}) = n

\* C20: findCompatibleTags returns the candidates that pass
\* isCompatibleWithAll, one per passing position and in the order of the
\* candidate list, no tag that is not a candidate, and the empty list for an
\* empty candidate list.
C20_FilterKeepsPassingInOrder ==
    returned.fn = "findCompatibleTags" =>
        /\ Len(returned.value) = Cardinality(PassingPositions)
        /\ \A n \in 1..Len(returned.value) :
              returned.value[n] = args.candidateTags[NthPassing(n)]
        /\ Range(returned.value) \subseteq Range(args.candidateTags)
        /\ (args.candidateTags = <<>> => returned.value = <<>>)

\* of three candidates the middle one is dropped and the other two, the same
\* tag twice, are both kept
C20_Witness ==
    /\ returned.fn = "findCompatibleTags"
    /\ args.candidateTags = <<"G2", "S1", "G2">>
    /\ args.existingTags = <<"G1">>
    /\ returned.value = <<"G2", "G2">>

-----------------------------------------------------------------------------
\* The calculator (src/services/calculator.js, src/unnamed/part_004 lines
\* 1-185).
\*
\* Numbers.  A numeric string parses to a number held in tenths ("1.5" is 15)
\* or to NaN; an audience appeal is held in 120ths (2.5 is 300), so that the
\* average over up to four contributing tags is exact; a product of an appeal
\* with a weight or an importance, an artistic or commercial total and a match
\* score are held in 1200ths (13.0 is 15600).  Scores that the code rounds to
\* one decimal are returned in tenths.  Arithmetic is exact decimal
\* arithmetic on finite numbers.
\*
\* Objects.  An object whose key order the code depends on (the audience group
\* table, an appeal map, the advertiser roster) is a sequence of entries; the
\* other objects are functions.  A nullable value is <<>> for null and <<v>>
\* for the value v.

\* parseFloat of the numeric strings of the reference data: a number in tenths,
\* or NaN
NaN == <<>>

isNaN(x) == x = NaN

parseFloat(str) ==
    CASE str = "0" -> <<0>>
      [] str = "0.1" -> <<1>>
      [] str = "0.2" -> <<2>>
      [] str = "0.5" -> <<5>>
      [] str = "1" -> <<10>>
      [] str = "1.5" -> <<15>>
      [] str = "2" -> <<20>>
      [] str = "3" -> <<30>>
      [] str = "4" -> <<40>>
      [] str = "4abc" -> <<40>>
      [] str = "5" -> <<50>>
      [] str = "6" -> <<60>>
      [] str = "8" -> <<80>>
      [] str = "10" -> <<100>>
      [] str = "12" -> <<120>>
      [] str = "30" -> <<300>>
      [] str = "-0.1" -> <<-1>>
      [] str = "-1" -> <<-10>>
      [] OTHER -> NaN

\* 120ths in a tenth, and 1200ths in a tenth
AppealPerTenth == 12
UnitPerTenth == 120

ART_COMM_SCORE_SCALE_FACTOR == 5
ART_COMM_SCORE_MIN == 1
ART_COMM_SCORE_MAX == 5
INTERESTED_AUDIENCE_THRESHOLD == 25
INTERESTED_AUDIENCE_FALLBACK_COUNT == 2
ADVERTISER_MATCH_NO_OVERLAP_PENALTY == 5
ADVERTISER_MATCH_SCORE_THRESHOLD == 130
ADVERTISER_MATCH_FALLBACK_COUNT == 3

\* Math.min, Math.max
Min(a, b) == IF a <= b THEN a ELSE b
Max(a, b) == IF a >= b THEN a ELSE b

\* Math.round(x * 10) / 10 of a number held in 1200ths, in tenths
roundToOneDecimal(x) == (x + UnitPerTenth \div 2) \div UnitPerTenth

\* Object.keys of a table kept as a sequence of entries
keys(table) == [k \in 1..Len(table) |-> table[k].id]

\* table[id] of a table kept as a sequence of entries: <<>> when undefined
lookup(table, id) == SelectSeq(table, LAMBDA entry : entry.id = id)

\* lines 32-38: the weight a tag defines for one audience, <<>> when it defines
\* none (no row, no entry, an empty string, or a string that is not a number)
tagScore(tagId, audienceId, audienceWeightsData) ==
    IF tagId \notin DOMAIN audienceWeightsData THEN <<>>
    ELSE LET tagWeights == audienceWeightsData[tagId].weights
         IN  IF audienceId \notin DOMAIN tagWeights THEN <<>>
             ELSE IF tagWeights[audienceId] = "" THEN <<>>
             ELSE parseFloat(tagWeights[audienceId])

\* lines 31-45 for one audience: the total and the count after the first k tags
RECURSIVE accumulate(_, _, _, _)
accumulate(tags, audienceId, audienceWeightsData, k) ==
    IF k = 0 THEN [total |-> 0, count |-> 0]
    ELSE LET before == accumulate(tags, audienceId, audienceWeightsData, k - 1)
             score == tagScore(tags[k], audienceId, audienceWeightsData)
         IN  IF isNaN(score) THEN before
             ELSE [total |-> before.total + score[1], count |-> before.count + 1]

\* mutant: the total is divided by the number of tags
averageScore_ByTagCount(tags, audienceId, audienceWeightsData) ==
    LET acc == accumulate(tags, audienceId, audienceWeightsData, Len(tags))
    IN  IF acc.count > 0 THEN (acc.total * AppealPerTenth) \div Len(tags) ELSE 0

\* lines 48-52 for one audience
averageScore(tags, audienceId, audienceWeightsData) ==
    LET acc == accumulate(tags, audienceId, audienceWeightsData, Len(tags))
    IN  IF acc.count > 0 THEN (acc.total * AppealPerTenth) \div acc.count ELSE 0

\* an appeal map: one entry per audience of the group table, in its key order
calculateAverageAudienceAppeal(tags, audienceWeightsData, audienceGroupsData) ==
    IF Len(audienceGroupsData) = 0 THEN <<>>
    ELSE LET allAudienceIds == keys(audienceGroupsData)
         IN  IF Len(tags) = 0
             THEN [k \in 1..Len(allAudienceIds) |-> [id |-> allAudienceIds[k], score |-> 0]]
             ELSE [k \in 1..Len(allAudienceIds) |->
                      [id |-> allAudienceIds[k],
                       score |-> averageScore(tags, allAudienceIds[k],
                                              audienceWeightsData)]]

\* lines 59-66: the artistic (weight = "artWeight") or commercial
\* (weight = "commercialWeight") total after the first k entries of the map
RECURSIVE weightedTotal(_, _, _, _)
weightedTotal(averageAudienceAppeal, audienceGroupsData, weight, k) ==
    IF k = 0 THEN 0
    ELSE LET before == weightedTotal(averageAudienceAppeal, audienceGroupsData, weight, k - 1)
             avgScore == averageAudienceAppeal[k].score
             groupData == lookup(audienceGroupsData, averageAudienceAppeal[k].id)
         IN  IF Len(groupData) > 0 /\ avgScore > 0
             THEN LET w == parseFloat(groupData[1][weight])
                  IN  IF ~isNaN(w) THEN before + avgScore * w[1] ELSE before
             ELSE before

\* mutant: the scaled total is rounded without being clamped
scaled_Unclamped(total) == total * ART_COMM_SCORE_SCALE_FACTOR

\* lines 67-68: the total scaled and clamped, in 1200ths
scaled(total) ==
    Max(ART_COMM_SCORE_MIN * 10 * UnitPerTenth,
        Min(ART_COMM_SCORE_MAX * 10 * UnitPerTenth, total * ART_COMM_SCORE_SCALE_FACTOR))

calculateArtisticCommercialScores(averageAudienceAppeal, audienceGroupsData) ==
    LET artisticTotal == weightedTotal(averageAudienceAppeal, audienceGroupsData,
                                       "artWeight", Len(averageAudienceAppeal))
        commercialTotal == weightedTotal(averageAudienceAppeal, audienceGroupsData,
                                         "commercialWeight", Len(averageAudienceAppeal))
    IN  [artisticScore |-> roundToOneDecimal(scaled(artisticTotal)),
         commercialScore |-> roundToOneDecimal(scaled(commercialTotal))]

\* Array.prototype.sort((a, b) => b.score - a.score): descending and stable
sortByScore(list) ==
    LET rank(k) == 1 + Cardinality({j \in 1..Len(list) : list[j].score > list[k].score})
                     + Cardinality({j \in 1..(k - 1) : list[j].score = list[k].score})
    IN  [n \in 1..Len(list) |-> list[CHOOSE k \in 1..Len(list) : rank(k) = n]]

\* Array.prototype.slice(0, n)
slice(list, n) == SubSeq(list, 1, Min(n, Len(list)))

\* lines 81-83
appealingAudiences(averageAudienceAppeal) ==
    keys(SelectSeq(averageAudienceAppeal,
                   LAMBDA entry : entry.score >= INTERESTED_AUDIENCE_THRESHOLD * AppealPerTenth))

\* lines 89-91
sortedAudiences(averageAudienceAppeal) ==
    sortByScore(SelectSeq(averageAudienceAppeal, LAMBDA entry : entry.score > 0))

\* mutant: the fallback takes the first audiences of the map with positive appeal
fallbackAudiences_Unsorted(averageAudienceAppeal) ==
    keys(slice(SelectSeq(averageAudienceAppeal, LAMBDA entry : entry.score > 0),
               INTERESTED_AUDIENCE_FALLBACK_COUNT))

\* lines 92-94
fallbackAudiences(averageAudienceAppeal) ==
    keys(slice(sortedAudiences(averageAudienceAppeal), INTERESTED_AUDIENCE_FALLBACK_COUNT))

\* lines 85-95
usesAudienceFallback(averageAudienceAppeal) ==
    Len(appealingAudiences(averageAudienceAppeal)) = 0

interestedAudiencesOf(averageAudienceAppeal) ==
    IF ~usesAudienceFallback(averageAudienceAppeal)
    THEN appealingAudiences(averageAudienceAppeal)
    ELSE fallbackAudiences(averageAudienceAppeal)

\* a roster entry that is null: reading a property of it throws
NullAdvertiser == [isNull |-> TRUE]

isNull(adData) == "isNull" \in DOMAIN adData

\* line 105: parseFloat(adData.quality) || 0
qualityOf(adData) ==
    IF "quality" \notin DOMAIN adData THEN 0
    ELSE LET q == parseFloat(adData.quality) IN IF isNaN(q) THEN 0 ELSE q[1]

\* line 106: adData.targetAudience ?? {}
targetAudiencesOf(adData) ==
    IF "targetAudience" \in DOMAIN adData THEN adData.targetAudience ELSE <<>>

\* line 107: adData.displayName || adData.id || 'Unknown Advertiser'
displayNameOf(adData) ==
    IF "displayName" \in DOMAIN adData /\ adData.displayName # "" THEN adData.displayName
    ELSE IF "id" \in DOMAIN adData /\ adData.id # "" THEN adData.id
    ELSE "Unknown Advertiser"

\* line 116: averageAudienceAppeal[audienceId] ?? 0
appealOf(averageAudienceAppeal, audienceId) ==
    LET entry == lookup(averageAudienceAppeal, audienceId)
    IN  IF Len(entry) > 0 THEN entry[1].score ELSE 0

\* lines 112-114: the target contributes to the overlap
countsAsOverlap(targetAudiences, audienceId, interestedAudienceSet) ==
    /\ audienceId \in interestedAudienceSet
    /\ LET importance == parseFloat(targetAudiences[audienceId])
       IN  ~isNaN(importance) /\ importance[1] > 0

\* lines 111-120: the targets that contribute
overlap(targetAudiences, interestedAudienceSet) ==
    {audienceId \in DOMAIN targetAudiences :
        countsAsOverlap(targetAudiences, audienceId, interestedAudienceSet)}

\* line 117, summed over the contributing targets, in 1200ths
RECURSIVE scoreFromOverlap(_, _, _)
scoreFromOverlap(targetAudiences, audiences, averageAudienceAppeal) ==
    IF audiences = {} THEN 0
    ELSE LET audienceId == CHOOSE a \in audiences : TRUE
             importance == parseFloat(targetAudiences[audienceId])
             imp == IF isNaN(importance) THEN 0 ELSE importance[1]
         IN  imp * appealOf(averageAudienceAppeal, audienceId)
             + scoreFromOverlap(targetAudiences, audiences \ {audienceId},
                                averageAudienceAppeal)

\* mutant: an advertiser without overlap keeps its full quality
finalMatchScore_NoPenalty(adData, averageAudienceAppeal, interestedAudienceSet) ==
    LET targetAudiences == targetAudiencesOf(adData)
        contributing == overlap(targetAudiences, interestedAudienceSet)
    IN  qualityOf(adData) * UnitPerTenth
        + scoreFromOverlap(targetAudiences, contributing, averageAudienceAppeal)

\* line 122, in 1200ths
finalMatchScore(adData, averageAudienceAppeal, interestedAudienceSet) ==
    LET targetAudiences == targetAudiencesOf(adData)
        contributing == overlap(targetAudiences, interestedAudienceSet)
        hasOverlap == contributing # {}
    IN  IF hasOverlap
        THEN qualityOf(adData) * UnitPerTenth
             + scoreFromOverlap(targetAudiences, contributing, averageAudienceAppeal)
        ELSE (qualityOf(adData) * UnitPerTenth * ADVERTISER_MATCH_NO_OVERLAP_PENALTY) \div 10

\* lines 101-126: the advertisers with their match scores, sorted
evaluatedAdvertisers(averageAudienceAppeal, advertisersData, interestedAudiences) ==
    sortByScore([k \in 1..Len(advertisersData) |->
                    [name |-> displayNameOf(advertisersData[k]),
                     score |-> finalMatchScore(advertisersData[k], averageAudienceAppeal,
                                               Range(interestedAudiences))]])

\* mutant: an advertiser scoring exactly the threshold is no good match
goodMatchAdvertisers_Strict(evaluated) ==
    SelectSeq(evaluated,
              LAMBDA ad : ad.score > ADVERTISER_MATCH_SCORE_THRESHOLD * UnitPerTenth)

\* line 130
goodMatchAdvertisers(evaluated) ==
    SelectSeq(evaluated,
              LAMBDA ad : ad.score >= ADVERTISER_MATCH_SCORE_THRESHOLD * UnitPerTenth)

\* mutant: the fallback returns every advertiser
topAdvertisersOf_FallbackAll(evaluated) ==
    IF Len(goodMatchAdvertisers(evaluated)) > 0 THEN goodMatchAdvertisers(evaluated)
    ELSE evaluated

\* lines 132-139
topAdvertisersOf(evaluated) ==
    IF Len(goodMatchAdvertisers(evaluated)) > 0 THEN goodMatchAdvertisers(evaluated)
    ELSE slice(evaluated, ADVERTISER_MATCH_FALLBACK_COUNT)

\* line 141
finalAdvertiserList(topAdvertisers) ==
    [k \in 1..Len(topAdvertisers) |->
        [name |-> topAdvertisers[k].name, score |-> roundToOneDecimal(topAdvertisers[k].score)]]

\* what a call hands back: a value, or an exception
Value(v) == [kind |-> "value", value |-> v]
Thrown(message) == [kind |-> "throw", message |-> message]

calculateAdvertiserMatches(averageAudienceAppeal, advertisersData) ==
    LET interestedAudiences == interestedAudiencesOf(averageAudienceAppeal)
        usedAudienceFallback == usesAudienceFallback(averageAudienceAppeal)
    IN  IF Len(interestedAudiences) = 0
        THEN Value([interestedAudiences |-> <<>>, topAdvertisers |-> <<>>,
                    usedAudienceFallback |-> usedAudienceFallback,
                    usedAdvertiserFallback |-> FALSE])
        ELSE IF \E k \in 1..Len(advertisersData) : isNull(advertisersData[k])
        THEN Thrown("Cannot read properties of null")
        ELSE LET evaluated == evaluatedAdvertisers(averageAudienceAppeal, advertisersData,
                                                   interestedAudiences)
             IN  Value([interestedAudiences |-> interestedAudiences,
                        topAdvertisers |-> finalAdvertiserList(topAdvertisersOf(evaluated)),
                        usedAudienceFallback |-> usedAudienceFallback,
                        usedAdvertiserFallback |-> Len(goodMatchAdvertisers(evaluated)) = 0])

\* the categories of a calculator selection, in the key order of
\* CalculatorPanel.vue
CalculatorCategories ==
    <<"GENRES", "SETTING", "PROTAGONIST", "ANTAGONIST", "FINALE",
      "SUPPORTINGCHARACTER", "THEME_and_EVENTS">>

\* line 148
getCount(tagsByCategory, category) ==
    IF category \in DOMAIN tagsByCategory
    THEN Len(tagsByCategory[category]) ELSE 0

\* Object.values(selectedTagsByCategory).flat(), over the first n categories
RECURSIVE flat(_, _)
flat(tagsByCategory, n) ==
    IF n = 0 THEN <<>>
    ELSE flat(tagsByCategory, n - 1)
         \o (IF CalculatorCategories[n] \in DOMAIN tagsByCategory
             THEN tagsByCategory[CalculatorCategories[n]] ELSE <<>>)

allSelectedTagsOf(tagsByCategory) ==
    flat(tagsByCategory, Len(CalculatorCategories))

\* errors.push(message) when the condition holds
pushIf(errors, condition, message) == IF condition THEN Append(errors, message) ELSE errors

\* mutant: up to four genres are accepted
genreCountError_UpToFour(genreCount) == genreCount < 1 \/ genreCount > 4

\* line 150
genreCountError(genreCount) == genreCount < 1 \/ genreCount > 3

validateSelectedTags(tagsByCategory) ==
    LET e1 == pushIf(<<>>, genreCountError(getCount(tagsByCategory, "GENRES")),
                     "Select between 1 and 3 Genres.")
        e2 == pushIf(e1, getCount(tagsByCategory, "SETTING") # 1,
                     "Exactly one Setting must be selected.")
        e3 == pushIf(e2, getCount(tagsByCategory, "PROTAGONIST") # 1,
                     "Exactly one Protagonist must be selected.")
        e4 == pushIf(e3, getCount(tagsByCategory, "ANTAGONIST") > 1,
                     "At most one Antagonist can be selected.")
        e5 == pushIf(e4, getCount(tagsByCategory, "FINALE") > 1,
                     "At most one Finale can be selected.")
        total == Len(allSelectedTagsOf(tagsByCategory))
        errors == pushIf(e5, total = 0 /\ Len(e5) = 0,
                         "No tags were selected for calculation.")
    IN  [isValid |-> Len(errors) = 0, errorMessages |-> errors]

\* null and a non-null value of a result field
Null == <<>>
Some(v) == <<v>>

\* line 183: the result of a failed computation
failedResults(message) ==
    [artisticScore |-> Null, commercialScore |-> Null, interestedAudiences |-> Null,
     topAdvertisers |-> Null, usedAudienceFallback |-> FALSE,
     usedAdvertiserFallback |-> FALSE, error |-> Some("Calculation failed: " \o message)]

\* line 174: the result for tags without any appeal
noAppealResults ==
    [artisticScore |-> Some(ART_COMM_SCORE_MIN * 10),
     commercialScore |-> Some(ART_COMM_SCORE_MIN * 10),
     interestedAudiences |-> Some(<<>>), topAdvertisers |-> Some(<<>>),
     usedAudienceFallback |-> FALSE, usedAdvertiserFallback |-> FALSE,
     error |-> Some("Selected tags have no measurable appeal.")]

\* line 180: { ...scores, ...matches, error: null }
mergedResults(scores, matches) ==
    [artisticScore |-> Some(scores.artisticScore),
     commercialScore |-> Some(scores.commercialScore),
     interestedAudiences |-> Some(matches.interestedAudiences),
     topAdvertisers |-> Some(matches.topAdvertisers),
     usedAudienceFallback |-> matches.usedAudienceFallback,
     usedAdvertiserFallback |-> matches.usedAdvertiserFallback,
     error |-> Null]

\* line 172
isAppealUniversallyZero(averageAudienceAppeal) ==
    \A k \in 1..Len(averageAudienceAppeal) : averageAudienceAppeal[k].score = 0

\* mutant: an invalid selection is computed all the same
stopsAfterValidation_Never(validation) == FALSE

\* line 165
stopsAfterValidation(validation) == ~validation.isValid

\* mutant: the exception of the advertiser stage leaves the results null
caught_NoResults(message) == Null

\* lines 181-184
caught(message) == Some(failedResults(message))

\* runCalculations; `missing' names the arguments that are null or undefined.
\* Next to the two fields of the source's result, `calls' lists the functions
\* the call went through.
runCalculations(tagsByCategory, weightsData, groupsData, advertisersData, missing) ==
    IF missing # {}
    THEN [validation |-> [isValid |-> FALSE,
                          errorMessages |-> <<"Internal Error: Missing required calculation data.">>],
          results |-> Null, calls |-> <<>>]
    ELSE
    LET validation == validateSelectedTags(tagsByCategory)
    IN  IF stopsAfterValidation(validation)
        THEN [validation |-> validation, results |-> Null,
              calls |-> <<"validateSelectedTags">>]
        ELSE
        LET allSelectedTags == allSelectedTagsOf(tagsByCategory)
            averageAudienceAppeal ==
                calculateAverageAudienceAppeal(allSelectedTags, weightsData,
                                               groupsData)
        IN  IF Len(averageAudienceAppeal) = 0 /\ Len(groupsData) > 0
            THEN [validation |-> validation,
                  results |-> caught("Audience appeal calculation failed critically."),
                  calls |-> <<"validateSelectedTags", "calculateAverageAudienceAppeal">>]
            ELSE IF isAppealUniversallyZero(averageAudienceAppeal) /\ Len(allSelectedTags) > 0
            THEN [validation |-> validation, results |-> Some(noAppealResults),
                  calls |-> <<"validateSelectedTags", "calculateAverageAudienceAppeal">>]
            ELSE
            LET scores == calculateArtisticCommercialScores(averageAudienceAppeal,
                                                            groupsData)
                matches == calculateAdvertiserMatches(averageAudienceAppeal, advertisersData)
            IN  [validation |-> validation,
                 results |-> IF matches.kind = "throw" THEN caught(matches.message)
                             ELSE Some(mergedResults(scores, matches.value)),
                 calls |-> <<"validateSelectedTags", "calculateAverageAudienceAppeal",
                             "calculateArtisticCommercialScores",
                             "calculateAdvertiserMatches">>]

\* ----- the arguments of the calls -----

Audiences == <<"AUD1", "AUD2", "AUD3">>

\* the weight table with the given cells: a tag has a row when it has an entry
\* (the tag P1 never has a row)
AudienceWeights(e) ==
    LET cols(t) == {a \in {"AUD1", "AUD2"} : e[<<t, a>>] # <<>>}
        rows == {t \in {"G1", "S1"} : cols(t) # {}}
    IN  [t \in rows |-> [weights |-> [a \in cols(t) |-> e[<<t, a>>][1]]]]

\* a row holds for an audience no entry, or one of four strings
WeightTables ==
    LET cells == {"G1", "S1"} \X {"AUD1", "AUD2"}
        choices == {<<>>, <<"">>, <<"abc">>, <<"4">>, <<"2">>}
    IN  {AudienceWeights(e) : e \in [cells -> choices]}

\* the tables in which only G1 has a row
RunWeightTables == {t \in WeightTables : "S1" \notin DOMAIN t}

GroupTable(n, c) ==
    [k \in 1..n |-> [id |-> Audiences[k], artWeight |-> c[k].artWeight,
                     commercialWeight |-> c[k].commercialWeight]]

\* group tables of no, two and three audiences
GroupTables ==
    LET choices == {[artWeight |-> "0.1", commercialWeight |-> "0.2"],
                    [artWeight |-> "-0.1", commercialWeight |-> "abc"],
                    [artWeight |-> "1", commercialWeight |-> "0"]}
    IN  {<<>>} \cup {GroupTable(2, c) : c \in [1..2 -> choices]}
               \cup {GroupTable(3, c) : c \in [1..3 -> choices]}

RunGroupTables ==
    {<<>>, GroupTable(2, [k \in 1..2 |-> [artWeight |-> "0.1", commercialWeight |-> "0.2"]]),
     GroupTable(3, [k \in 1..3 |-> [artWeight |-> "1", commercialWeight |-> "abc"]])}

\* appeal maps with the appeals -1.0, 0, 1.0, 1.33.., 2.5 and 4.0
AppealMaps ==
    {[k \in 1..3 |-> [id |-> Audiences[k], score |-> s[k]]] :
        s \in [1..3 -> {-120, 0, 120, 160, 300, 480}]}

AdvertiserPool ==
    <<[displayName |-> "Ad1", quality |-> "12", targetAudience |-> [AUD1 |-> "1"]],
      [displayName |-> "Ad2", quality |-> "8",
       targetAudience |-> [AUD1 |-> "0.5", AUD2 |-> "1.5"]],
      [id |-> "ad3", quality |-> "abc", targetAudience |-> [AUD2 |-> "2"]],
      [displayName |-> "Ad4", quality |-> "10", targetAudience |-> [AUD3 |-> "0"]],
      [displayName |-> "Ad5", quality |-> "30"],
      [displayName |-> "Ad6", quality |-> "6",
       targetAudience |-> [AUD1 |-> "abc", AUD2 |-> "-1", AUD3 |-> "3"]]>>

\* rosters: up to three advertisers of the pool in every order, four in the
\* order of the pool, and two with a null entry
Rosters ==
    LET roster(p) == [k \in 1..Len(p) |-> AdvertiserPool[p[k]]]
        injective(p) == \A j, k \in 1..Len(p) : j # k => p[j] # p[k]
    IN  {roster(p) : p \in {q \in UNION {[1..n -> 1..Len(AdvertiserPool)] : n \in 0..3} :
                               injective(q)}}
        \cup {roster(p) : p \in {q \in [1..4 -> 1..Len(AdvertiserPool)] :
                                    \A k \in 1..3 : q[k] < q[k + 1]}}
        \cup {<<NullAdvertiser>>, <<AdvertiserPool[1], NullAdvertiser>>}

RunRosters ==
    {<<>>, <<AdvertiserPool[1], AdvertiserPool[2]>>,
     <<AdvertiserPool[2], AdvertiserPool[3], AdvertiserPool[4], AdvertiserPool[6]>>,
     <<AdvertiserPool[5], AdvertiserPool[1]>>, <<AdvertiserPool[1], NullAdvertiser>>}

\* the selection holding the first counts[c] tags of every category c
SelectionOf(counts) ==
    LET all(category) ==
            CASE category = "GENRES" -> <<"G1", "G2", "G3", "G4">>
              [] category = "SETTING" -> <<"S1", "S2">>
              [] category = "PROTAGONIST" -> <<"P1", "P2">>
              [] category = "ANTAGONIST" -> <<"A1", "A2">>
              [] category = "FINALE" -> <<"F1", "F2">>
              [] category = "SUPPORTINGCHARACTER" -> <<"C1">>
              [] category = "THEME_and_EVENTS" -> <<"T1">>
    IN  [c \in DOMAIN counts |-> SubSeq(all(c), 1, counts[c])]

\* selections: every count of every category, and the selections that lack
\* the categories without a cardinality rule
Selections ==
    {SelectionOf(n) : n \in [GENRES : 0..4, SETTING : 0..2, PROTAGONIST : 0..2,
                             ANTAGONIST : 0..2, FINALE : 0..2,
                             SUPPORTINGCHARACTER : 0..1, THEME_and_EVENTS : 0..1]}
    \cup {SelectionOf(n) : n \in [GENRES : 0..4, SETTING : 0..2, PROTAGONIST : 0..2]}

RunSelections ==
    {SelectionOf([GENRES |-> 1, SETTING |-> 1, PROTAGONIST |-> 1, ANTAGONIST |-> 0,
                  FINALE |-> 0, SUPPORTINGCHARACTER |-> 0, THEME_and_EVENTS |-> 0]),
     SelectionOf([GENRES |-> 3, SETTING |-> 1, PROTAGONIST |-> 1, ANTAGONIST |-> 1,
                  FINALE |-> 1, SUPPORTINGCHARACTER |-> 1, THEME_and_EVENTS |-> 1]),
     SelectionOf([GENRES |-> 0, SETTING |-> 1, PROTAGONIST |-> 1, ANTAGONIST |-> 0,
                  FINALE |-> 0, SUPPORTINGCHARACTER |-> 0, THEME_and_EVENTS |-> 0]),
     SelectionOf([GENRES |-> 1, SETTING |-> 2, PROTAGONIST |-> 1, ANTAGONIST |-> 0,
                  FINALE |-> 0, SUPPORTINGCHARACTER |-> 0, THEME_and_EVENTS |-> 0])}

\* the calls: the function and its arguments
CalcCalls ==
    [fn : {"calculateAverageAudienceAppeal"},
     selectedTags : {<<>>, <<"G1">>, <<"G1", "S1">>, <<"G1", "S1", "P1">>,
                     <<"S1", "G1", "S1">>},
     audienceWeightsData : WeightTables, audienceGroupsData : RunGroupTables]
    \cup [fn : {"calculateArtisticCommercialScores"}, averageAudienceAppeal : AppealMaps,
          audienceGroupsData : GroupTables]
    \cup [fn : {"calculateAdvertiserMatches"}, averageAudienceAppeal : AppealMaps,
          advertisersData : Rosters]
    \cup [fn : {"validateSelectedTags"}, selectedTagsByCategory : Selections]
    \cup [fn : {"runCalculations"}, selectedTagsByCategory : RunSelections,
          audienceWeightsData : RunWeightTables, audienceGroupsData : RunGroupTables,
          advertisersData : RunRosters,
          missing : {{}} \cup {{d} : d \in {"audienceWeightsData", "audienceGroupsData",
                                            "advertisersData", "selectedTagsByCategory"}}]

CalcInit ==
    /\ args \in CalcCalls
    /\ returned = [fn |-> "none"]
    /\ fpc = "ready"
    /\ compatibilityData = LowMatrix
    /\ originalActiveTags = EmptyPool
    /\ activeTags = EmptyPool
    /\ params = generationParams
    /\ idea = NewIdea
    /\ selectedTags = <<>>
    /\ availableThemesEvents = <<>>
    /\ availableFinales = <<>>
    /\ availableSupport = <<>>
    /\ i = 0
    /\ pc = "idle"
    /\ result = Pending
    /\ NoRetry
    /\ NoBatch

\* the variables a call of the calculator leaves alone
calcFrame == <<args, originalActiveTags, activeTags, compatibilityData, params,
               idea, selectedTags, availableThemesEvents, availableFinales,
               availableSupport, i, pc, result, ctl, app>>

CallCalculateAverageAudienceAppeal ==
    /\ fpc = "ready"
    /\ args.fn = "calculateAverageAudienceAppeal"
    /\ returned' = [fn |-> args.fn,
                    value |-> calculateAverageAudienceAppeal(
                                  args.selectedTags, args.audienceWeightsData,
                                  args.audienceGroupsData)]
    /\ fpc' = "done"
    /\ UNCHANGED calcFrame

CallCalculateArtisticCommercialScores ==
    /\ fpc = "ready"
    /\ args.fn = "calculateArtisticCommercialScores"
    /\ returned' = [fn |-> args.fn,
                    value |-> calculateArtisticCommercialScores(
                                  args.averageAudienceAppeal, args.audienceGroupsData)]
    /\ fpc' = "done"
    /\ UNCHANGED calcFrame

\* the call also shows the local evaluatedAdvertisers (empty when the function
\* returned or threw before line 126)
CallCalculateAdvertiserMatches ==
    /\ fpc = "ready"
    /\ args.fn = "calculateAdvertiserMatches"
    /\ LET out == calculateAdvertiserMatches(args.averageAudienceAppeal,
                                             args.advertisersData)
           interested == interestedAudiencesOf(args.averageAudienceAppeal)
           reachedSort == out.kind = "value" /\ Len(interested) > 0
       IN  returned' = [fn |-> args.fn,
                        out |-> out,
                        sorted |-> reachedSort,
                        evaluatedAdvertisers |->
                            IF reachedSort
                            THEN evaluatedAdvertisers(args.averageAudienceAppeal,
                                                      args.advertisersData, interested)
                            ELSE <<>>]
    /\ fpc' = "done"
    /\ UNCHANGED calcFrame

CallValidateSelectedTags ==
    /\ fpc = "ready"
    /\ args.fn = "validateSelectedTags"
    /\ returned' = [fn |-> args.fn,
                    value |-> validateSelectedTags(args.selectedTagsByCategory)]
    /\ fpc' = "done"
    /\ UNCHANGED calcFrame

CallRunCalculations ==
    /\ fpc = "ready"
    /\ args.fn = "runCalculations"
    /\ returned' = [fn |-> args.fn,
                    value |-> runCalculations(
                                  args.selectedTagsByCategory, args.audienceWeightsData,
                                  args.audienceGroupsData, args.advertisersData,
                                  args.missing)]
    /\ fpc' = "done"
    /\ UNCHANGED calcFrame

CalcNext ==
    \/ CallCalculateAverageAudienceAppeal
    \/ CallCalculateArtisticCommercialScores
    \/ CallCalculateAdvertiserMatches
    \/ CallValidateSelectedTags
    \/ CallRunCalculations

CalcSpec == CalcInit /\ [][CalcNext]_vars

-----------------------------------------------------------------------------
\* Properties of the calculator

\* the tag defines a numeric weight for the audience in the weight table
HasNumericWeight(table, tag, audience) ==
    /\ tag \in DOMAIN table
    /\ audience \in DOMAIN table[tag].weights
    /\ ~isNaN(parseFloat(table[tag].weights[audience]))

\* the positions of the tag list whose tag contributes a weight for the audience
Contributing(table, tagList, audience) ==
    {k \in 1..Len(tagList) : HasNumericWeight(table, tagList[k], audience)}

\* the sum of the weights contributed at the positions, in tenths
RECURSIVE WeightSum(_, _, _, _)
WeightSum(table, tagList, audience, positions) ==
    IF positions = {} THEN 0
    ELSE LET k == CHOOSE p \in positions : TRUE
         IN  parseFloat(table[tagList[k]].weights[audience])[1]
             + WeightSum(table, tagList, audience, positions \ {k})

\* C21: calculateAverageAudienceAppeal returns one entry for every audience of
\* the group table and no other; each entry is the sum of the numeric weights
\* the tags define for that audience divided by the number of tags that
\* contribute one, and 0 when none does; an empty tag list gives 0 everywhere.
C21_AppealIsAverageOverContributors ==
    returned.fn = "calculateAverageAudienceAppeal" =>
        /\ keys(returned.value) = keys(args.audienceGroupsData)
        /\ \A k \in 1..Len(returned.value) :
              LET audience == returned.value[k].id
                  contributing == Contributing(args.audienceWeightsData,
                                               args.selectedTags, audience)
              IN  IF contributing = {} THEN returned.value[k].score = 0
                  ELSE returned.value[k].score * Cardinality(contributing)
                       = AppealPerTenth * WeightSum(args.audienceWeightsData,
                                                    args.selectedTags, audience, contributing)
        /\ (args.selectedTags = <<>> =>
               \A k \in 1..Len(returned.value) : returned.value[k].score = 0)

\* of the two tags only G1 has a weight for AUD1, "4": the appeal of AUD1 is 4.0
C21_Witness ==
    /\ returned.fn = "calculateAverageAudienceAppeal"
    /\ args.selectedTags = <<"G1", "S1">>
    /\ HasNumericWeight(args.audienceWeightsData, "G1", "AUD1")
    /\ args.audienceWeightsData["G1"].weights["AUD1"] = "4"
    /\ ~HasNumericWeight(args.audienceWeightsData, "S1", "AUD1")
    /\ Len(returned.value) = 3
    /\ returned.value[1] = [id |-> "AUD1", score |-> 480]

\* the entries of the appeal map that count for a score: positive appeal, a
\* group of that name, and a weight of the group that parses to a number
Counting(appealMap, groups, weight) ==
    {k \in 1..Len(appealMap) :
        /\ appealMap[k].score > 0
        /\ \E g \in 1..Len(groups) :
              /\ groups[g].id = appealMap[k].id
              /\ ~isNaN(parseFloat(groups[g][weight]))}

GroupWeight(groups, id, weight) ==
    parseFloat(groups[CHOOSE g \in 1..Len(groups) : groups[g].id = id][weight])[1]

\* the sum of appeal times weight over the entries, in 1200ths
RECURSIVE AppealWeightSum(_, _, _, _)
AppealWeightSum(appealMap, groups, weight, entries) ==
    IF entries = {} THEN 0
    ELSE LET k == CHOOSE e \in entries : TRUE
         IN  appealMap[k].score * GroupWeight(groups, appealMap[k].id, weight)
             + AppealWeightSum(appealMap, groups, weight, entries \ {k})

\* 5 times the sum, brought into [1, 5], in 1200ths
Clamped(appealMap, groups, weight) ==
    LET raw == 5 * AppealWeightSum(appealMap, groups, weight,
                                   Counting(appealMap, groups, weight))
    IN  IF raw < 1200 THEN 1200 ELSE IF raw > 6000 THEN 6000 ELSE raw

\* t tenths is x 1200ths rounded to one decimal, halves going up
IsRounded(t, x) == 120 * t - 60 <= x /\ x < 120 * t + 60

\* C22: the artistic and the commercial score lie in [1, 5]; each is 5 times
\* the sum of appeal times weight over the audiences with positive appeal
\* (weights that do not parse being left out), clamped to [1, 5] and rounded
\* to one decimal.
C22_ScoresClampedToOneFive ==
    returned.fn = "calculateArtisticCommercialScores" =>
        /\ returned.value.artisticScore \in 10..50
        /\ returned.value.commercialScore \in 10..50
        /\ IsRounded(returned.value.artisticScore,
                     Clamped(args.averageAudienceAppeal, args.audienceGroupsData, "artWeight"))
        /\ IsRounded(returned.value.commercialScore,
                     Clamped(args.averageAudienceAppeal, args.audienceGroupsData,
                             "commercialWeight"))

\* the artistic total is negative and the score is 1.0; the commercial score,
\* with an unparseable weight left out, is strictly inside the range
C22_Witness ==
    /\ returned.fn = "calculateArtisticCommercialScores"
    /\ AppealWeightSum(args.averageAudienceAppeal, args.audienceGroupsData, "artWeight",
                       Counting(args.averageAudienceAppeal, args.audienceGroupsData,
                                "artWeight")) < 0
    /\ returned.value.artisticScore = 10
    /\ \E g \in 1..Len(args.audienceGroupsData) :
          /\ args.audienceGroupsData[g].commercialWeight = "abc"
          /\ args.averageAudienceAppeal[g].score > 0
    /\ returned.value.commercialScore \in 11..49

\* the appeal of an audience in an appeal map
AppealIn(appealMap, id) ==
    appealMap[CHOOSE k \in 1..Len(appealMap) : appealMap[k].id = id].score

\* the audiences of the map whose appeal is at least x 120ths
AtLeast(appealMap, x) == {appealMap[k].id : k \in {j \in 1..Len(appealMap) : appealMap[j].score >= x}}

\* a call of calculateAdvertiserMatches has returned a result
MatchesReturned == returned.fn = "calculateAdvertiserMatches" /\ returned.out.kind = "value"

\* C23: if some audience has appeal >= 2.5, interestedAudiences is exactly the
\* audiences with appeal >= 2.5 and usedAudienceFallback is false; otherwise
\* usedAudienceFallback is true and interestedAudiences holds at most 2
\* audiences, all with appeal > 0, none with a lower appeal than an audience
\* with positive appeal that was left out.
C23_InterestedAudiences ==
    MatchesReturned =>
        LET appealMap == args.averageAudienceAppeal
            out == returned.out.value
            interested == Range(out.interestedAudiences)
        IN  IF AtLeast(appealMap, 300) # {}
            THEN /\ interested = AtLeast(appealMap, 300)
                 /\ out.usedAudienceFallback = FALSE
            ELSE /\ out.usedAudienceFallback = TRUE
                 /\ Len(out.interestedAudiences) <= 2
                 /\ interested \subseteq AtLeast(appealMap, 1)
                 /\ \A a \in interested : \A b \in AtLeast(appealMap, 1) \ interested :
                       AppealIn(appealMap, a) >= AppealIn(appealMap, b)

\* no audience reaches 2.5 and the three have positive appeal: the first of
\* the map, with the lowest appeal, is left out
C23_Witness ==
    /\ MatchesReturned
    /\ AtLeast(args.averageAudienceAppeal, 300) = {}
    /\ AtLeast(args.averageAudienceAppeal, 1) = {"AUD1", "AUD2", "AUD3"}
    /\ AppealIn(args.averageAudienceAppeal, "AUD1") < AppealIn(args.averageAudienceAppeal, "AUD2")
    /\ returned.out.value.interestedAudiences = <<"AUD2", "AUD3">>
    /\ returned.out.value.usedAudienceFallback = TRUE

\* the importance an advertiser gives an audience it targets, in tenths; 0 when
\* the string is not a number
Importance(ad, audience) ==
    LET v == parseFloat(targetAudiencesOf(ad)[audience])
    IN  IF isNaN(v) THEN 0 ELSE v[1]

\* the sum of importance times appeal over the audiences, in 1200ths
RECURSIVE ImportanceAppealSum(_, _, _)
ImportanceAppealSum(ad, appealMap, audiences) ==
    IF audiences = {} THEN 0
    ELSE LET a == CHOOSE x \in audiences : TRUE
         IN  Importance(ad, a) * AppealIn(appealMap, a)
             + ImportanceAppealSum(ad, appealMap, audiences \ {a})

\* the match score the code gave the advertiser, in 1200ths
MatchScoreOf(ad) ==
    returned.evaluatedAdvertisers[
        CHOOSE k \in 1..Len(returned.evaluatedAdvertisers) :
            returned.evaluatedAdvertisers[k].name = displayNameOf(ad)].score

\* a call of calculateAdvertiserMatches has evaluated the roster
Evaluated == MatchesReturned /\ returned.sorted

\* C24 as stated: an advertiser that targets an audience of the interested set
\* has matchScore = quality + the sum of importance * appeal over its targeted
\* audiences of the interested set; an advertiser that targets none has
\* matchScore = quality * 0.5.
C24_MatchScoreOverTargets ==
    Evaluated =>
        \A ad \in Range(args.advertisersData) :
            LET targeted == DOMAIN targetAudiencesOf(ad)
                             \cap Range(returned.out.value.interestedAudiences)
            IN  MatchScoreOf(ad)
                = IF targeted # {}
                  THEN 120 * qualityOf(ad)
                       + ImportanceAppealSum(ad, args.averageAudienceAppeal, targeted)
                  ELSE 60 * qualityOf(ad)

\* C24, amended: a targeted audience counts only when its importance is a
\* positive number.  An advertiser with such an audience in the interested set
\* has matchScore = quality + the sum of importance * appeal over them; any
\* other advertiser has matchScore = quality * 0.5.
C24_MatchScoreOverPositiveTargets ==
    Evaluated =>
        \A ad \in Range(args.advertisersData) :
            LET counted == {a \in DOMAIN targetAudiencesOf(ad)
                                  \cap Range(returned.out.value.interestedAudiences) :
                               Importance(ad, a) > 0}
            IN  MatchScoreOf(ad)
                = IF counted # {}
                  THEN 120 * qualityOf(ad)
                       + ImportanceAppealSum(ad, args.averageAudienceAppeal, counted)
                  ELSE 60 * qualityOf(ad)

\* Ad4 (quality 10) targets only AUD3, with importance "0"; AUD3 is interested
\* and Ad4 is scored 5.0, next to Ad2 scored 8 + 0.5 * 4.0 + 1.5 * 4.0 = 16.0
C24_Witness ==
    /\ Evaluated
    /\ args.advertisersData = <<AdvertiserPool[4], AdvertiserPool[2]>>
    /\ returned.out.value.interestedAudiences = <<"AUD1", "AUD2", "AUD3">>
    /\ AppealIn(args.averageAudienceAppeal, "AUD1") = 480
    /\ AppealIn(args.averageAudienceAppeal, "AUD2") = 480
    /\ returned.evaluatedAdvertisers
         = <<[name |-> "Ad2", score |-> 19200], [name |-> "Ad4", score |-> 6000]>>

\* the match score of an advertiser under the scoring rule, for the interested
\* audiences of the result, in 1200ths
RuleScore(ad) ==
    LET counted == {a \in DOMAIN targetAudiencesOf(ad)
                          \cap Range(returned.out.value.interestedAudiences) :
                       Importance(ad, a) > 0}
    IN  IF counted # {}
        THEN 120 * qualityOf(ad) + ImportanceAppealSum(ad, args.averageAudienceAppeal, counted)
        ELSE 60 * qualityOf(ad)

\* no advertiser of the roster reaches 13.0
NoGoodMatch == \A ad \in Range(args.advertisersData) : RuleScore(ad) < 15600

\* the advertisers returned are min(3, roster size) of the roster, none scored
\* lower than one left out, with usedAdvertiserFallback set
FallbackReturned ==
    LET top == returned.out.value.topAdvertisers
        names == {top[k].name : k \in 1..Len(top)}
        roster == Range(args.advertisersData)
    IN  /\ returned.out.value.usedAdvertiserFallback = TRUE
        /\ Len(top) = (IF Len(args.advertisersData) < 3 THEN Len(args.advertisersData) ELSE 3)
        /\ Cardinality(names) = Len(top)
        /\ names \subseteq {displayNameOf(ad) : ad \in roster}
        /\ \A ad \in roster : \A other \in roster :
              (displayNameOf(ad) \in names /\ displayNameOf(other) \notin names)
                  => RuleScore(ad) >= RuleScore(other)

\* C25 as stated: whenever no advertiser reaches 13.0 the result holds
\* min(3, roster size) advertisers, the highest-scoring ones, with
\* usedAdvertiserFallback = true, for every appeal map.
C25_AdvertiserFallbackAlways ==
    (MatchesReturned /\ NoGoodMatch) => FallbackReturned

\* C25, amended: that holds whenever some audience has positive appeal; when
\* no audience has positive appeal the result holds no advertiser and
\* usedAdvertiserFallback = false, whatever the roster.
C25_AdvertiserFallbackWhenInterested ==
    MatchesReturned =>
        IF AtLeast(args.averageAudienceAppeal, 1) # {}
        THEN NoGoodMatch => FallbackReturned
        ELSE /\ returned.out.value.topAdvertisers = <<>>
             /\ returned.out.value.usedAdvertiserFallback = FALSE

\* a roster of four advertisers, none reaching 13.0: three are returned
C25_Witness ==
    /\ MatchesReturned
    /\ Len(args.advertisersData) = 4
    /\ AtLeast(args.averageAudienceAppeal, 1) # {}
    /\ NoGoodMatch
    /\ Len(returned.out.value.topAdvertisers) = 3
    /\ returned.out.value.usedAdvertiserFallback = TRUE

\* the names of the advertisers of the roster that reach 13.0
GoodMatches == {displayNameOf(ad) : ad \in {x \in Range(args.advertisersData) : RuleScore(x) >= 15600}}

\* the list returned is in order of non-increasing score
TopOrdered ==
    LET top == returned.out.value.topAdvertisers
    IN  \A k \in 1..(Len(top) - 1) : top[k].score >= top[k + 1].score

\* the list returned holds the good matches, each once, without fallback
TopIsGoodMatches ==
    LET top == returned.out.value.topAdvertisers
    IN  /\ {top[k].name : k \in 1..Len(top)} = GoodMatches
        /\ Len(top) = Cardinality(GoodMatches)
        /\ returned.out.value.usedAdvertiserFallback = FALSE

CountIn(selection, category) ==
    IF category \in DOMAIN selection THEN Len(selection[category]) ELSE 0

\* the number of tags of the selection
RECURSIVE CountAll(_, _)
CountAll(selection, categories) ==
    IF categories = {} THEN 0
    ELSE LET c == CHOOSE x \in categories : TRUE
         IN  Len(selection[c]) + CountAll(selection, categories \ {c})

\* the cardinality rules of a selection
WithinRules(selection) ==
    /\ CountIn(selection, "GENRES") \in 1..3
    /\ CountIn(selection, "SETTING") = 1
    /\ CountIn(selection, "PROTAGONIST") = 1
    /\ CountIn(selection, "ANTAGONIST") <= 1
    /\ CountIn(selection, "FINALE") <= 1
    /\ CountAll(selection, DOMAIN selection) >= 1

\* C27: validateSelectedTags reports isValid = true exactly when the selection
\* has 1 to 3 genres, 1 setting, 1 protagonist, at most 1 antagonist, at most
\* 1 finale and at least one tag; errorMessages is empty exactly when isValid
\* is true; a selection without genre is invalid with the genre-count message;
\* a selection of 1 genre, 1 setting, 1 protagonist and nothing else is valid.
C27_ValidIffWithinRules ==
    returned.fn = "validateSelectedTags" =>
        LET selection == args.selectedTagsByCategory
            validation == returned.value
        IN  /\ validation.isValid = WithinRules(selection)
            /\ (validation.errorMessages = <<>>) = validation.isValid
            /\ CountIn(selection, "GENRES") = 0 =>
                  /\ validation.isValid = FALSE
                  /\ "Select between 1 and 3 Genres." \in Range(validation.errorMessages)
            /\ (/\ CountIn(selection, "GENRES") = 1
                /\ CountIn(selection, "SETTING") = 1
                /\ CountIn(selection, "PROTAGONIST") = 1
                /\ CountAll(selection, DOMAIN selection) = 3) => validation.isValid = TRUE

\* a selection of one setting and one protagonist without genre: invalid, with
\* the genre-count message alone
C27_Witness ==
    /\ returned.fn = "validateSelectedTags"
    /\ CountIn(args.selectedTagsByCategory, "GENRES") = 0
    /\ CountIn(args.selectedTagsByCategory, "SETTING") = 1
    /\ CountIn(args.selectedTagsByCategory, "PROTAGONIST") = 1
    /\ returned.value = [isValid |-> FALSE,
                         errorMessages |-> <<"Select between 1 and 3 Genres.">>]

\* a call of runCalculations has returned
RunReturned == returned.fn = "runCalculations"

\* the helper functions of the computation stage
ComputationStage ==
    {"calculateAverageAudienceAppeal", "calculateArtisticCommercialScores",
     "calculateAdvertiserMatches"}

\* C28: runCalculations returns results = null exactly when validation.isValid
\* is false, which is when the selection breaks a cardinality rule or a
\* reference table is missing; then no appeal, score or advertiser
\* computation was performed.  When validation.isValid is true, results is a
\* non-null record.
C28_NullResultsIffInvalid ==
    RunReturned =>
        LET r == returned.value
        IN  /\ (r.results = Null) = (r.validation.isValid = FALSE)
            /\ r.validation.isValid
                 = (args.missing = {} /\ WithinRules(args.selectedTagsByCategory))
            /\ r.results = Null => Range(r.calls) \cap ComputationStage = {}
            /\ r.validation.isValid => Len(r.results) = 1

\* a selection with two settings, all tables given: validation failed, results
\* is null and only the validation ran
C28_Witness ==
    /\ RunReturned
    /\ args.missing = {}
    /\ CountIn(args.selectedTagsByCategory, "SETTING") = 2
    /\ returned.value.validation.isValid = FALSE
    /\ returned.value.results = Null
    /\ returned.value.calls = <<"validateSelectedTags">>

\* the appeal map of the selection of the call
RunAppeal ==
    calculateAverageAudienceAppeal(allSelectedTagsOf(args.selectedTagsByCategory),
                                   args.audienceWeightsData, args.audienceGroupsData)

\* the advertiser stage of the call fails: some audience is interested and
\* the roster holds a null entry
AdvertiserStageFails ==
    /\ AtLeast(RunAppeal, 1) # {}
    /\ NullAdvertiser \in Range(args.advertisersData)

\* C29: for a selection that passed validation runCalculations returns a
\* structured result; a failure of the computation stage gives
\* validation.isValid = true and a non-null results.error with the scores and
\* lists null; results.error is null exactly when the scores and the
\* advertiser matches were all computed.
C29_FailureIsReported ==
    (RunReturned /\ returned.value.validation.isValid) =>
        LET r == returned.value
            res == r.results[1]
            allComputed == /\ "calculateArtisticCommercialScores" \in Range(r.calls)
                           /\ "calculateAdvertiserMatches" \in Range(r.calls)
                           /\ ~AdvertiserStageFails
        IN  /\ Len(r.results) = 1
            /\ AdvertiserStageFails =>
                  /\ res.error # Null
                  /\ res.artisticScore = Null
                  /\ res.commercialScore = Null
                  /\ res.interestedAudiences = Null
                  /\ res.topAdvertisers = Null
            /\ (res.error = Null) = allComputed

\* a valid selection with a positive appeal and a roster with a null entry:
\* the TypeError of line 105 comes back as results.error
C29_Witness ==
    /\ RunReturned
    /\ returned.value.validation.isValid
    /\ AdvertiserStageFails
    /\ returned.value.results[1].error
         = Some("Calculation failed: Cannot read properties of null")
    /\ returned.value.results[1].topAdvertisers = Null

\* C30: for a selection that passes validation, the interestedAudiences,
\* topAdvertisers, usedAudienceFallback and usedAdvertiserFallback of
\* runCalculations are those calculateAdvertiserMatches returns for
\* calculateAverageAudienceAppeal of the flattened selection, and the two
\* scores are those of calculateArtisticCommercialScores for that appeal map.
C30_PanelEqualsEnrichment ==
    (RunReturned /\ returned.value.validation.isValid) =>
        LET res == returned.value.results[1]
            matches == calculateAdvertiserMatches(RunAppeal, args.advertisersData)
            scores == calculateArtisticCommercialScores(RunAppeal, args.audienceGroupsData)
        IN  matches.kind = "value" =>
                /\ res.interestedAudiences = Some(matches.value.interestedAudiences)
                /\ res.topAdvertisers = Some(matches.value.topAdvertisers)
                /\ res.usedAudienceFallback = matches.value.usedAudienceFallback
                /\ res.usedAdvertiserFallback = matches.value.usedAdvertiserFallback
                /\ res.artisticScore = Some(scores.artisticScore)
                /\ res.commercialScore = Some(scores.commercialScore)

-----------------------------------------------------------------------------
\* Step 8 in the arithmetic of the engine (lines 585-597).  A JavaScript number
\* is an IEEE 754 binary64 value: 53 significant bits, every result rounded to
\* the nearest such value, ties to the even one.  The values that occur here
\* (half-step scores, the genre weights of lines 406-408, their products and
\* sums, and ten times a sum) are multiples of 2^-56 below 2^17; such a value x
\* is held exactly as the integer x * 2^56, written in four limbs of 20 bits,
\* least significant limb first.

LimbBase == 1048576

\* x + y, exactly
plus(x, y) ==
    LET s1 == x[1] + y[1]
        s2 == x[2] + y[2] + (s1 \div LimbBase)
        s3 == x[3] + y[3] + (s2 \div LimbBase)
        s4 == x[4] + y[4] + (s3 \div LimbBase)
    IN  <<s1 % LimbBase, s2 % LimbBase, s3 % LimbBase, s4>>

\* n * x for a small natural number n, exactly
times(x, n) ==
    LET p1 == x[1] * n
        p2 == x[2] * n + (p1 \div LimbBase)
        p3 == x[3] * n + (p2 \div LimbBase)
        p4 == x[4] * n + (p3 \div LimbBase)
    IN  <<p1 % LimbBase, p2 % LimbBase, p3 % LimbBase, p4>>

\* x / 2 for an even x, exactly
half(x) ==
    <<(x[1] \div 2) + (x[2] % 2) * (LimbBase \div 2),
      (x[2] \div 2) + (x[3] % 2) * (LimbBase \div 2),
      (x[3] \div 2) + (x[4] % 2) * (LimbBase \div 2),
      x[4] \div 2>>

\* the number of bits of x, leading zeros not counted
significantBits(x) ==
    LET bits(n) == CHOOSE k \in 0..20 : n < 2^k /\ (k = 0 \/ n >= 2^(k - 1))
    IN  IF x[4] # 0 THEN 60 + bits(x[4])
        ELSE IF x[3] # 0 THEN 40 + bits(x[3])
        ELSE IF x[2] # 0 THEN 20 + bits(x[2])
        ELSE bits(x[1])

\* the binary64 value nearest to the exact value x: the bits below the 53
\* significant ones (fewer than 20 here) are rounded away, a tie to the even
\* neighbour
roundToDouble(x) ==
    LET dropped == significantBits(x) - 53
        quantum == 2^dropped
        rest == x[1] % quantum
        down == <<x[1] - rest, x[2], x[3], x[4]>>
        odd == (x[1] \div quantum) % 2 = 1
    IN  IF dropped <= 0 THEN x
        ELSE IF 2 * rest > quantum \/ (2 * rest = quantum /\ odd)
        THEN plus(down, <<quantum, 0, 0, 0>>)
        ELSE down

\* the binary64 value of a weight literal of lines 406-408 and of the default
\* 1.0 of lines 591-592, the weight given in hundredths
weightDouble(weight) ==
    CASE weight = 100 -> <<0, 0, 65536, 0>>
      [] weight = 50 -> <<0, 0, 32768, 0>>
      [] weight = 65 -> <<419432, 419430, 42598, 0>>
      [] weight = 35 -> <<629144, 629145, 22937, 0>>
      [] weight = 80 -> <<838864, 838860, 52428, 0>>
      [] weight = 20 -> <<209716, 209715, 13107, 0>>
      [] weight = 40 -> <<419432, 419430, 26214, 0>>
      [] weight = 30 -> <<838860, 838860, 19660, 0>>
      [] weight = 60 -> <<629144, 629145, 39321, 0>>

\* score * weight: the score, given in tenths, is a whole number of halves,
\* which binary64 holds exactly
product(score, weight) == roundToDouble(times(half(weightDouble(weight)), score \div 5))

\* (scoreForward * weightA) + (scoreReverse * weightB)
weightedPairScoreDouble(tagA, tagB, weightMap, cd) ==
    roundToDouble(plus(product(getCompatibilityScore(tagA, tagB, cd), weightOf(tagA, weightMap)),
                       product(getCompatibilityScore(tagB, tagA, cd), weightOf(tagB, weightMap))))

\* the two nested loops; totalScore += weightedPairScore.  No limb is ever
\* negative: the second test of the first line only makes TLC evaluate the
\* running total at every pass, as the engine does, instead of carrying the
\* unevaluated sum of all passes to the end.
RECURSIVE pairLoopDouble(_, _, _, _, _, _)
pairLoopDouble(selected, weightMap, cd, a, b, totalScore) ==
    IF a > Len(selected) \/ totalScore[1] < 0 THEN totalScore
    ELSE IF b > Len(selected)
    THEN pairLoopDouble(selected, weightMap, cd, a + 1, a + 2, totalScore)
    ELSE pairLoopDouble(selected, weightMap, cd, a, b + 1,
             roundToDouble(plus(totalScore,
                 weightedPairScoreDouble(selected[a], selected[b], weightMap, cd))))

\* Math.round(totalScore * 10) / 10, as a whole number of tenths: the product
\* is rounded to binary64, Math.round takes the integer nearest to it, a half
\* going up
roundedTotalScore(totalScore) ==
    LET scaledUp == roundToDouble(times(totalScore, 10))
        raised == plus(scaledUp, <<0, 0, 32768, 0>>)
    IN  (raised[3] \div 65536) + raised[4] * 16

\* a matrix over two genres, a setting and a protagonist in which the exact
\* weighted pair sum at weights 0.65 and 0.35 is 33.85
BoundaryMatrix ==
    [G1 |-> [G2 |-> 50, S1 |-> 35, P1 |-> 45],
     G2 |-> [G1 |-> 45, S1 |-> 50, P1 |-> 45],
     S1 |-> [G1 |-> 35, G2 |-> 35, P1 |-> 25],
     P1 |-> [G1 |-> 25, G2 |-> 50, S1 |-> 35]]

\* the lists that hold each of the tags once
Orderings(tags) ==
    {p \in [1..Cardinality(tags) -> tags] : \A j, k \in DOMAIN p : j # k => p[j] # p[k]}

\* the scoring stage entered with the tags G1, G2, S1 and P1 selected in some
\* order (and S1, P1 with a theme/event and a third genre), the genres G1 and
\* G2 carrying one of the weight pairs of line 407 either way round
ScoreInit ==
    /\ compatibilityData \in MatrixSet \cup {BoundaryMatrix}
    /\ args \in [selectedTags : Orderings({"G1", "G2", "S1", "P1"})
                                \cup {p \in Orderings({"G1", "G2", "G3", "S1", "P1", "T1"}) :
                                        p[1] = "S1" /\ p[2] = "P1"},
                 Genres : {<<"G1", "G2">>},
                 GenreWeights : {<<50, 50>>, <<65, 35>>, <<80, 20>>, <<35, 65>>, <<20, 80>>}]
    /\ returned = [fn |-> "none"]
    /\ fpc = "ready"
    /\ originalActiveTags = EmptyPool
    /\ activeTags = EmptyPool
    /\ params = generationParams
    /\ idea = NewIdea
    /\ selectedTags = <<>>
    /\ availableThemesEvents = <<>>
    /\ availableFinales = <<>>
    /\ availableSupport = <<>>
    /\ i = 0
    /\ pc = "idle"
    /\ result = Pending
    /\ NoRetry
    /\ NoBatch

\* Step 8 (lines 572-598): totalScore after the loops and idea.TotalScore
CallScoringStage ==
    /\ fpc = "ready"
    /\ LET totalScore ==
               pairLoopDouble(args.selectedTags,
                              genreWeightMap(args.Genres, args.GenreWeights),
                              compatibilityData, 1, 2, <<0, 0, 0, 0>>)
       IN  returned' = [fn |-> "scoringStage", totalScore |-> totalScore,
                        TotalScore |-> roundedTotalScore(totalScore)]
    /\ fpc' = "done"
    /\ UNCHANGED <<args, originalActiveTags, activeTags, compatibilityData, params,
                   idea, selectedTags, availableThemesEvents, availableFinales,
                   availableSupport, i, pc, result, ctl, app>>

ScoreNext == CallScoringStage

ScoreSpec == ScoreInit /\ [][ScoreNext]_vars

\* the list sorted by position in TagList: one order of selection to compare
\* every other with
RECURSIVE InTagListOrder(_)
InTagListOrder(tags) ==
    IF tags = {} THEN <<>>
    ELSE LET first == CHOOSE t \in tags : \A u \in tags : Idx(t) <= Idx(u)
         IN  <<first>> \o InTagListOrder(tags \ {first})

-----------------------------------------------------------------------------
\* Properties of a whole run of the generator

\* s is t with some of its elements left out
RECURSIVE IsSubsequence(_, _)
IsSubsequence(s, t) ==
    IF Len(s) = 0 THEN TRUE
    ELSE IF Len(t) = 0 THEN FALSE
    ELSE IF Head(s) = Head(t) THEN IsSubsequence(Tail(s), Tail(t))
    ELSE IsSubsequence(s, Tail(t))

\* no tag of the list is left in the category of the working pool
GoneFrom(list, category) == Range(list) \cap Range(activeTags[category]) = {}

\* C31: during a run every category of the working pool is a subsequence of
\* the content it had when the run started, and once an idea is returned none
\* of its genres, its protagonist, its themes/events, its finales, its
\* antagonist and its supporting characters is left in its category of the
\* pool (the themes/events in none of THEME, EVENT and THEME_and_EVENTS).
C31_PoolOnlyLosesTags ==
    /\ \A c \in DOMAIN activeTags : IsSubsequence(activeTags[c], originalActiveTags[c])
    /\ Returned =>
          /\ GoneFrom(result.idea.Genres, "GENRES")
          /\ GoneFrom(<<result.idea.Protagonist>>, "PROTAGONIST")
          /\ \A c \in {"THEME", "EVENT", "THEME_and_EVENTS"} :
                GoneFrom(result.idea.ThemesEvents, c)
          /\ GoneFrom(result.idea.Finales, "FINALE")
          /\ GoneFrom(<<result.idea.Antagonist>>, "ANTAGONIST")
          /\ GoneFrom(result.idea.SupportingChars, "SUPPORTINGCHARACTER")

\* a returned idea of the pool that lists tags twice: two genres, one of them
\* the tag listed twice, two themes/events, an antagonist and a supporting
\* character, every one of them taken out of a pool that keeps other tags
C31_Witness ==
    /\ Returned
    /\ originalActiveTags = SharedPool
    /\ "G1" \in Range(result.idea.Genres)
    /\ Len(result.idea.ThemesEvents) = 2
    /\ result.idea.Antagonist # NullTag
    /\ Len(result.idea.SupportingChars) = 1
    /\ \E c \in DOMAIN activeTags :
          Len(activeTags[c]) > 0 /\ Len(activeTags[c]) < Len(originalActiveTags[c])

\* the tags an idea record holds, slot after slot in the order of the stages;
\* a slot that holds null contributes nothing
InStageOrder(r) ==
    LET one(tag) == IF tag = NullTag THEN <<>> ELSE <<tag>>
    IN  r.Genres \o one(r.Setting) \o one(r.Protagonist) \o r.ThemesEvents
        \o r.Finales \o one(r.Antagonist) \o r.SupportingChars

\* C32: at every point of a run the list the next stage filters against is
\* the picks of the earlier stages in the order genres, setting, protagonist,
\* themes/events, finales, antagonist, supporting characters; and AllTags of
\* a returned idea is that concatenation, with no other tag.
C32_AllTagsInStageOrder ==
    /\ selectedTags = InStageOrder(idea)
    /\ Returned => result.idea.AllTags = InStageOrder(result.idea)

\* a returned idea with an antagonist and at least eight tags
C32_Witness ==
    /\ Returned
    /\ result.idea.Antagonist # NullTag
    /\ Len(result.idea.SupportingChars) >= 1
    /\ Len(result.idea.AllTags) >= 8
    /\ result.idea.AllTags[Len(result.idea.AllTags)] # result.idea.AllTags[1]

\* the call under way has returned: generateMovieIdea when it was called
\* directly, generateMovieIdeaWithRetry otherwise
Finished == IF rpc = "none" THEN pc = "done" /\ result # Pending
            ELSE rpc = "returned"

\* the calls of generateMovieIdea that generateMovieIdeaWithRetry has made
CallsMade == Len(attemptResults) + (IF rpc = "call" THEN 1 ELSE 0)

\* a step taken inside a multi-pick loop shortens the loop's candidate list or
\* leaves the loop
LoopStepShortensOrStops ==
    /\ pc = "themes_loop" =>
          pc' # pc \/ Len(availableThemesEvents') < Len(availableThemesEvents)
    /\ pc = "finales_loop" =>
          pc' # pc \/ Len(availableFinales') < Len(availableFinales)
    /\ pc = "support_loop" =>
          pc' # pc \/ Len(availableSupport') < Len(availableSupport)

\* C33: every call returns (an idea or null), and it stays returned; every
\* step of a multi-pick loop removes a tag from the loop's candidate list or
\* stops the loop, and the loop index stays within the target; a call of
\* generateMovieIdeaWithRetry makes at most MAX_GENERATION_ATTEMPTS calls of
\* generateMovieIdea.
C33_EveryRunTerminates ==
    /\ <>[]Finished
    /\ [][LoopStepShortensOrStops]_vars
    /\ [](CallsMade <= MAX_GENERATION_ATTEMPTS)
    /\ [](pc \in {"themes_loop", "finales_loop", "support_loop"} =>
            i <= (CASE pc = "themes_loop" -> params.num_themes_target
                    [] pc = "finales_loop" -> params.num_finales_target
                    [] pc = "support_loop" -> params.num_support_target))

\* a call of generateMovieIdeaWithRetry that returned after three calls of
\* generateMovieIdea, the last of which returned an idea with a supporting
\* character
C33_Witness ==
    /\ rpc = "returned"
    /\ CallsMade = MAX_GENERATION_ATTEMPTS
    /\ retryResult.kind = "idea"
    /\ Len(retryResult.idea.SupportingChars) = 1

\* a target is outside the range the generator accepts
OutOfRange ==
    \/ params.num_genres_target < 1 \/ params.num_genres_target > 3
    \/ params.num_themes_target < 1 \/ params.num_themes_target > 3
    \/ params.num_finales_target < 1 \/ params.num_finales_target > 2

\* C34: a run whose num_genres_target, num_themes_target or num_finales_target
\* is outside its range never returns an idea: it ends with null.  A negative
\* num_support_target is replaced by 0 without ending the run or touching the
\* idea, and a run at a target of 0 leaves the supporting-character loop at
\* once, with no supporting character and no warning added.
C34_OutOfRangeTargets ==
    /\ [](("num_genres_target" \in DOMAIN params /\ "num_themes_target" \in DOMAIN params
           /\ "num_finales_target" \in DOMAIN params /\ OutOfRange) =>
             /\ ~Returned
             /\ pc = "done" => result = NullResult)
    /\ [][(pc = "support" /\ params.num_support_target < 0) =>
             /\ params' = [params EXCEPT !.num_support_target = 0]
             /\ pc' = "support_loop"
             /\ idea' = idea /\ result' = result]_vars
    /\ [][(pc = "support_loop" /\ params.num_support_target = 0) =>
             /\ pc' = "score"
             /\ idea' = idea /\ selectedTags' = selectedTags]_vars
    /\ [](Returned => Len(result.idea.SupportingChars) <= params.num_support_target)

\* a run on the full pool with the matrix in which every pair is compatible
\* and a num_themes_target of 4: two genres, a setting and a protagonist were
\* picked, and the run ended with null
C34_Witness ==
    /\ rpc = "none"
    /\ originalActiveTags = BasePool
    /\ compatibilityData = MatrixOf(1)
    /\ DOMAIN params = ParamNames
    /\ params.num_themes_target = 4
    /\ Len(selectedTags) = 4
    /\ pc = "done"
    /\ result = NullResult

-----------------------------------------------------------------------------
\* Properties of handleGenerateIdeas

\* C36: at most one batch is in progress at any time; isGenerating is true
\* exactly while a batch is in progress, from its start (line 163) until its end
\* on success or on error (line 241); and an invocation of handleGenerateIdeas
\* that arrives while isGenerating is true starts no generation and leaves
\* generatedIdeas, isGenerating and the batch under way as they are.
C36_OneBatchAtATime ==
    /\ [](batchesInProgress <= 1)
    /\ [](isGenerating <=> batchesInProgress = 1)
    /\ [](isGenerating <=> bpc \in {"await", "loop", "call"})
    /\ [][(isGenerating /\ HandleGenerateIdeas) =>
              UNCHANGED <<isGenerating, generatedIdeas, successfulIdeas, batchIndex,
                          batchesInProgress, bpc, originalActiveTags, activeTags,
                          rpc, retryResult>>]_vars

\* an invocation was turned away while the batch waits at line 173
C36_Witness ==
    /\ isGenerating
    /\ bpc = "await"
    /\ batchesInProgress = 1
    /\ generationStatusMessage = "Generation in progress..."
    /\ isGeneratorErrorStatus

====
